---- MODULE Spec2Model ----
(***************************************************************************)
(* Pascal SEO: the CSV parser (services/pascalCsvParser.ts), the import    *)
(* orchestrator (services/pascalSupabase.ts) and the chart aggregation     *)
(* (components/RankChart.tsx) and the authentication service              *)
(* (services/auth.ts), as state machines over bounded inputs.              *)
(*                                                                         *)
(* Text is a sequence of one-character strings.  A character outside       *)
(* ASCII is written by its code point ("U+5E74" is the character 年).      *)
(* An optional value (undefined in the source) is the empty sequence <<>>, *)
(* a present value v is <<v>>.                                             *)
(***************************************************************************)
EXTENDS Integers, Sequences, FiniteSets, TLC

VARIABLES
    \* --- parser runs
    csvContent,      \* the file handed to validatePascalCsv / parsePascalCsv
    validation,      \* <<>> or <<result of validatePascalCsv(csvContent)>>
    parsed,          \* <<>> or <<result of parsePascalCsv(csvContent)>>
    \* --- chart
    tz,              \* the timezone of the JavaScript runtime (environment)
    data,            \* RankChart props.data
    startDate,       \* RankChart props.startDate
    endDate,         \* RankChart props.endDate
    aggregation,     \* RankChart state: "daily" | "weekly" | "monthly"
    rendered,        \* <<>> or <<[aggregatedData, yAxisDomain]>> of the last render
    \* --- store and import
    pascal_keywords,         \* table pascal_keywords: set of rows
    pascal_daily_rankings,   \* table pascal_daily_rankings: set of rows
    nextUuid,                \* next surrogate id the store assigns
    imp,                     \* the importPascalCsv call: its locals and position
    hist,                    \* history: what the finished imports did
    \* --- a second client importing at the same time
    imp2,                    \* its importPascalCsv call
    parsed2,                 \* <<>> or <<what its parsePascalCsv returned>>
    committed,               \* history: the upsert that committed last, per key
    \* --- authentication
    auth,                    \* the calls of authService and what they delivered
    \* --- the progress sink
    ref,                     \* importPascalCsv without a sink, same file and outcomes
    \* --- dashboard
    dash                     \* the Dashboard: its selection, its queries, its data

parserVars == <<csvContent, validation, parsed>>
chartVars  == <<tz, data, startDate, endDate, aggregation, rendered>>
storeVars  == <<pascal_keywords, pascal_daily_rankings, nextUuid>>
twoVars    == <<imp2, parsed2, committed>>
vars == <<csvContent, validation, parsed, tz, data, startDate, endDate,
          aggregation, rendered, pascal_keywords, pascal_daily_rankings,
          nextUuid, imp, hist, imp2, parsed2, committed, auth, ref, dash>>

(***************************************************************************)
(* Characters and strings                                                  *)
(***************************************************************************)
Digits == <<"0", "1", "2", "3", "4", "5", "6", "7", "8", "9">>

IsDigit(c) == \E i \in 1..10 : Digits[i] = c

DigitVal(c) == (CHOOSE i \in 1..10 : Digits[i] = c) - 1

\* White space that String.prototype.trim and parseInt strip.
IsSpace(c) == c \in {" ", "\t", "\r", "\n"}

Upper == <<"A","B","C","D","E","F","G","H","I","J","K","L","M",
           "N","O","P","Q","R","S","T","U","V","W","X","Y","Z">>
Lower == <<"a","b","c","d","e","f","g","h","i","j","k","l","m",
           "n","o","p","q","r","s","t","u","v","w","x","y","z">>

LowerChar(c) ==
    IF \E i \in 1..26 : Upper[i] = c
    THEN Lower[CHOOSE i \in 1..26 : Upper[i] = c]
    ELSE c

\* String.prototype.toLowerCase
toLowerCase(s) == [i \in 1..Len(s) |-> LowerChar(s[i])]

\* String.prototype.includes
includes(s, sub) ==
    \E i \in 1..(Len(s) - Len(sub) + 1) : \A j \in 1..Len(sub) : s[i + j - 1] = sub[j]

\* String.prototype.trim
trim(s) ==
    IF \A i \in 1..Len(s) : IsSpace(s[i])
    THEN <<>>
    ELSE SubSeq(s,
                CHOOSE i \in 1..Len(s) :
                    ~IsSpace(s[i]) /\ \A j \in 1..(i-1) : IsSpace(s[j]),
                CHOOSE i \in 1..Len(s) :
                    ~IsSpace(s[i]) /\ \A j \in (i+1)..Len(s) : IsSpace(s[j]))

RECURSIVE DecimalValue(_)
\* the value of a sequence of decimal digits
DecimalValue(ds) ==
    IF ds = <<>> THEN 0
    ELSE 10 * DecimalValue(SubSeq(ds, 1, Len(ds) - 1)) + DigitVal(ds[Len(ds)])

\* the longest prefix of s made of digits
DigitPrefix(s) ==
    SubSeq(s, 1, CHOOSE k \in 0..Len(s) :
                    /\ \A i \in 1..k : IsDigit(s[i])
                    /\ (k < Len(s) => ~IsDigit(s[k+1])))

\* parseInt once the sign is read: ds is the run of digits that follows it;
\* no digit gives NaN.  The result is [nan, val].
parseIntDigits(neg, ds) ==
    IF ds = <<>>
    THEN [nan |-> TRUE, val |-> 0]
    ELSE [nan |-> FALSE,
          val |-> IF neg THEN 0 - DecimalValue(ds) ELSE DecimalValue(ds)]

\* parseInt once leading white space is skipped: one sign is read, then the
\* longest run of digits
parseIntTrimmed(t) ==
    IF t # <<>> /\ t[1] \in {"-", "+"}
    THEN parseIntDigits(t[1] = "-", DigitPrefix(Tail(t)))
    ELSE parseIntDigits(FALSE, DigitPrefix(t))

\* parseInt(s) with no radix, for text that does not start with 0x
parseInt(s) == parseIntTrimmed(trim(s))

\* the largest and the least number of a non-empty set
MaxOf(S) == CHOOSE m \in S : \A n \in S : n <= m
MinOf(S) == CHOOSE m \in S : \A n \in S : m <= n

(***************************************************************************)
(* Calendar: Date.UTC, toISOString().split('T')[0]                         *)
(* An ISO date string "YYYY-MM-DD" is the record [y, m, d] of its three    *)
(* fields; an instant (a Date's time value) is a number of hours since     *)
(* 1970-01-01T00:00Z.                                                      *)
(***************************************************************************)
IsLeap(y) == (y % 4 = 0 /\ y % 100 # 0) \/ y % 400 = 0

DaysInMonth(y, m) ==
    IF m = 2 THEN (IF IsLeap(y) THEN 29 ELSE 28)
    ELSE IF m \in {4, 6, 9, 11} THEN 30 ELSE 31

\* days from 1970-01-01 to the first of January of year y
DaysToYear(y) ==
    365 * (y - 1970) + ((y - 1969) \div 4) - ((y - 1901) \div 100)
        + ((y - 1601) \div 400)

RECURSIVE DaysBeforeMonth(_, _)
DaysBeforeMonth(y, m) ==
    IF m = 1 THEN 0 ELSE DaysBeforeMonth(y, m - 1) + DaysInMonth(y, m - 1)

\* ECMAScript MakeDay(year, month0, date): month0 is zero-based and may lie
\* outside 0..11, date may lie outside the month; both carry over.
MakeDay(year, month0, date) ==
    DaysToYear(year + (month0 \div 12))
        + DaysBeforeMonth(year + (month0 \div 12), (month0 % 12) + 1) + date - 1

\* the civil date of day number n (days since 1970-01-01)
YearOfDay(n) ==
    CHOOSE y \in ((1970 + (n \div 366)) - 1)..((1970 + (n \div 365)) + 1) :
        DaysToYear(y) <= n /\ n < DaysToYear(y + 1)

\* the month of day r (from 0) of year y
MonthOfDay(y, r) ==
    CHOOSE k \in 1..12 : DaysBeforeMonth(y, k) <= r /\ r < DaysBeforeMonth(y, k + 1)

civilInMonth(y, m, r) == [y |-> y, m |-> m, d |-> r - DaysBeforeMonth(y, m) + 1]

civilInYear(y, r) == civilInMonth(y, MonthOfDay(y, r), r)

civilOfYear(y, n) == civilInYear(y, n - DaysToYear(y))

civilOfDay(n) == civilOfYear(YearOfDay(n), n)

\* civilOfDay tabulated once for the days of 2024-2025, which the inputs
\* below stay in
CivilTable == [n \in DaysToYear(2024)..(DaysToYear(2026) - 1) |-> civilOfDay(n)]

civilLookup(table, n) == IF n \in DOMAIN table THEN table[n] ELSE civilOfDay(n)

CivilFromDays(n) == civilLookup(CivilTable, n)

\* Date.UTC(year, month0, day): years 0..99 mean 1900..1999
DateUTC(year, month0, day) ==
    MakeDay(IF year >= 0 /\ year <= 99 THEN 1900 + year ELSE year, month0, day) * 24

\* date.toISOString().split('T')[0]
toISODate(t) == CivilFromDays(t \div 24)

\* new Date("YYYY-MM-DD"): a date-only ISO string is UTC midnight
DateParse(iso) == MakeDay(iso.y, iso.m - 1, iso.d) * 24

(***************************************************************************)
(* pascalCsvParser.ts                                                      *)
(* csvContent is the file as the sequence of its lines (split on "\n"),    *)
(* each line the sequence of its cells (split on ","): every line has at   *)
(* least one cell and the file at least one line, as split() gives.        *)
(***************************************************************************)
AllSpace(s) == \A i \in 1..Len(s) : IsSpace(s[i])

\* trailing white space of s removed (the right half of trim)
trimEnd(s) ==
    IF AllSpace(s) THEN <<>>
    ELSE SubSeq(s, 1, CHOOSE i \in 1..Len(s) :
                        ~IsSpace(s[i]) /\ \A j \in (i+1)..Len(s) : IsSpace(s[j]))

trimStart(s) ==
    IF AllSpace(s) THEN <<>>
    ELSE SubSeq(s, CHOOSE i \in 1..Len(s) :
                        ~IsSpace(s[i]) /\ \A j \in 1..(i-1) : IsSpace(s[j]), Len(s))

RECURSIVE dropBlankTail(_)
dropBlankTail(ls) ==
    IF Len(ls) > 1 /\ Len(ls[Len(ls)]) = 1 /\ AllSpace(ls[Len(ls)][1])
    THEN dropBlankTail(SubSeq(ls, 1, Len(ls) - 1))
    ELSE ls

RECURSIVE dropBlankHead(_)
dropBlankHead(ls) ==
    IF Len(ls) > 1 /\ Len(ls[1]) = 1 /\ AllSpace(ls[1][1])
    THEN dropBlankHead(Tail(ls))
    ELSE ls

\* csvContent.trim().split('\n'): white space, line breaks included, is
\* removed at both ends of the text before it is split into lines.
trimLastCell(ls) ==
    [ls EXCEPT ![Len(ls)] =
        [ls[Len(ls)] EXCEPT ![Len(ls[Len(ls)])] = trimEnd(ls[Len(ls)][Len(ls[Len(ls)])])]]

trimFirstCell(ls) == [ls EXCEPT ![1] = [ls[1] EXCEPT ![1] = trimStart(ls[1][1])]]

trimSplitLines(content) ==
    trimFirstCell(trimLastCell(dropBlankHead(dropBlankTail(content))))

\* line.split(',').map(c => c.trim())
trimCells(line) == [i \in 1..Len(line) |-> trim(line[i])]

\* the branches of the else-if chain after the first, in order
FieldLabels == <<
    [field |-> "keyword", lower |-> TRUE,            \* キーワード
     a |-> <<"U+30AD","U+30FC","U+30EF","U+30FC","U+30C9">>,
     b |-> <<"k","e","y","w","o","r","d">>],
    [field |-> "search_volume", lower |-> TRUE,      \* 月間検索数
     a |-> <<"U+6708","U+9593","U+691C","U+7D22","U+6570">>,
     b |-> <<"s","e","a","r","c","h"," ","v","o","l","u","m","e">>],
    [field |-> "domain_url", lower |-> TRUE,         \* ドメイン
     a |-> <<"U+30C9","U+30E1","U+30A4","U+30F3">>,
     b |-> <<"d","o","m","a","i","n">>],
    [field |-> "site_name", lower |-> TRUE,          \* サイト名
     a |-> <<"U+30B5","U+30A4","U+30C8","U+540D">>,
     b |-> <<"s","i","t","e">>],
    [field |-> "rank_type", lower |-> TRUE,          \* 順位取得
     a |-> <<"U+9806","U+4F4D","U+53D6","U+5F97">>,
     b |-> <<"r","a","n","k"," ","t","y","p","e">>],
    [field |-> "area", lower |-> TRUE,               \* エリア
     a |-> <<"U+30A8","U+30EA","U+30A2">>,
     b |-> <<"a","r","e","a">>],
    [field |-> "device_type", lower |-> TRUE,        \* 種別
     a |-> <<"U+7A2E","U+5225">>,
     b |-> <<"d","e","v","i","c","e">>],
    [field |-> "landing_page", lower |-> TRUE,       \* ランディング
     a |-> <<"U+30E9","U+30F3","U+30C7","U+30A3","U+30F3","U+30B0">>,
     b |-> <<"l","a","n","d","i","n","g">>] >>

\* ColumnLabels with the identifier column looked for under the label "ID"
ColumnLabelsShortId ==
    << [field |-> "pascal_id", lower |-> FALSE,
        a |-> <<"I","D">>, b |-> <<"i","d">>] >> \o FieldLabels

\* The else-if chain of parsePascalCsv: the labels of each semantic field,
\* in the order the branches are tried.  The second label of pascal_id is
\* matched against the cell as written, the second label of every other
\* field against the lower-cased cell.
ColumnLabels ==
    << [field |-> "pascal_id", lower |-> FALSE,
        a |-> <<"P","a","s","c","a","l"," ","I","D">>,
        b |-> <<"p","a","s","c","a","l"," ","i","d">>] >> \o FieldLabels

ColumnFields == {ColumnLabels[k].field : k \in 1..Len(ColumnLabels)}

\* the condition of branch k: h is the cell, lowerHeader = h.toLowerCase()
labelMatches(h, lowerHeader, k) ==
    \/ includes(h, ColumnLabels[k].a)
    \/ includes(IF ColumnLabels[k].lower THEN lowerHeader ELSE h, ColumnLabels[k].b)

RECURSIVE branchFrom(_, _, _)
branchFrom(h, lowerHeader, k) ==
    IF k > Len(ColumnLabels) THEN 0
    ELSE IF labelMatches(h, lowerHeader, k) THEN k
    ELSE branchFrom(h, lowerHeader, k + 1)

\* the branch of the chain a header cell takes: 0 when no label matches
branchOf(h) == branchFrom(h, toLowerCase(h), 1)

\* headers.forEach((h, index) => ... columnMap.<field> = index): every cell
\* that takes the branch of a field assigns it, so the last such cell stays.
\* Columns are numbered from 1 here; 0 is undefined.
columnOf(headers, branch, f) ==
    IF \E i \in 1..Len(headers) : branch[i] # 0 /\ ColumnLabels[branch[i]].field = f
    THEN MaxOf({i \in 1..Len(headers) :
                    branch[i] # 0 /\ ColumnLabels[branch[i]].field = f})
    ELSE 0

columnMap(headers) ==
    [f \in ColumnFields |->
        columnOf(headers, [i \in 1..Len(headers) |-> branchOf(headers[i])], f)]

\* The three date patterns, in the order they are tried:
\* /(\d{4})年(\d{1,2})月(\d{1,2})日/, /(\d{4})\/(\d{1,2})\/(\d{1,2})/,
\* /(\d{4})-(\d{1,2})-(\d{1,2})/.  end = <<>> when nothing follows the day.
datePatterns == <<
    [s1 |-> "U+5E74", s2 |-> "U+6708", end |-> <<"U+65E5">>],
    [s1 |-> "/", s2 |-> "/", end |-> <<>>],
    [s1 |-> "-", s2 |-> "-", end |-> <<>>] >>

digitsAt(h, p, n) == p >= 1 /\ p + n - 1 <= Len(h) /\ \A i \in p..(p + n - 1) : IsDigit(h[i])

charAt(h, p, c) == p >= 1 /\ p <= Len(h) /\ h[p] = c

\* n digits at position q and then lit, a sequence of zero or one character
digitsThen(h, q, n, lit) ==
    digitsAt(h, q, n) /\ (lit # <<>> => charAt(h, q + n, lit[1]))

\* the number of digits (\d{1,2}) takes at position q when lit must follow
\* it: two when that matches, else one; 0 when neither matches
digitRun(h, q, lit) ==
    IF digitsThen(h, q, 2, lit) THEN 2 ELSE IF digitsThen(h, q, 1, lit) THEN 1 ELSE 0

\* the rest of pattern pat after a month group of n1 digits
matchesFrom(h, pat, p, n1) == n1 > 0 /\ digitRun(h, p + 6 + n1, pat.end) > 0

\* pattern pat matches h starting at position p
matchesAt(h, pat, p) ==
    /\ digitsAt(h, p, 4)
    /\ charAt(h, p + 4, pat.s1)
    /\ matchesFrom(h, pat, p, digitRun(h, p + 5, <<pat.s2>>))

\* the groups of the match at p with n1 month digits and n2 day digits, each
\* through parseInt
groupsAt(h, p, n1, n2) ==
    [year  |-> parseInt(SubSeq(h, p, p + 3)).val,
     month |-> parseInt(SubSeq(h, p + 5, p + 4 + n1)).val,
     day   |-> parseInt(SubSeq(h, p + 6 + n1, p + 5 + n1 + n2)).val]

groupsFrom(h, pat, p, n1) == groupsAt(h, p, n1, digitRun(h, p + 6 + n1, pat.end))

\* header.match(pattern): the groups [year, month, day] of the leftmost
\* match as <<groups>>; <<>> for null
headerMatch(h, pat) ==
    IF \E p \in 1..Len(h) : matchesAt(h, pat, p)
    THEN << groupsFrom(h, pat, MinOf({q \in 1..Len(h) : matchesAt(h, pat, q)}),
                       digitRun(h, MinOf({q \in 1..Len(h) : matchesAt(h, pat, q)}) + 5,
                                <<pat.s2>>)) >>
    ELSE <<>>

RECURSIVE headerDateFrom(_, _)
\* matchedDate with the month handed to Date.UTC as written, not month - 1
matchedDateMonthAsWritten(h, k, match) ==
    IF match # <<>>
    THEN << toISODate(DateUTC(match[1].year, match[1].month, match[1].day)) >>
    ELSE headerDateFrom(h, k + 1)

\* the date of a match: new Date(Date.UTC(year, month - 1, day))
\* .toISOString().split('T')[0]; the next pattern when match is null
matchedDate(h, k, match) ==
    IF match # <<>>
    THEN << toISODate(DateUTC(match[1].year, match[1].month - 1, match[1].day)) >>
    ELSE headerDateFrom(h, k + 1)

\* for (const pattern of datePatterns), from pattern k on
headerDateFrom(h, k) ==
    IF k > Len(datePatterns) THEN <<>>
    ELSE matchedDate(h, k, headerMatch(h, datePatterns[k]))

\* the body of headers.forEach at one header cell: <<date>> by the first
\* pattern that matches, <<>> when no pattern matches
headerDate(h) == headerDateFrom(h, 1)

\* dateColumns.push({ index, date }) when the cell gave a date
dateColumnAt(i, d) == IF d = <<>> THEN <<>> ELSE << [index |-> i, date |-> d[1]] >>

RECURSIVE dateColumnsFrom(_, _)
dateColumnsFrom(headers, i) ==
    IF i > Len(headers) THEN <<>>
    ELSE dateColumnAt(i, headerDate(headers[i])) \o dateColumnsFrom(headers, i + 1)

\* dateColumns: one {index, date} per header cell that matches a pattern, in
\* column order
dateColumns(headers) == dateColumnsFrom(headers, 1)

\* values[c] || undefined, for a column c >= 1 within or beyond the row
cellOrUndefined(values, c) ==
    IF c <= Len(values) /\ values[c] # <<>> THEN <<values[c]>> ELSE <<>>

\* a parseInt result kept when it is a number
numberOrUndefined(n) == IF n.nan THEN <<>> ELSE <<n.val>>

\* the search-volume field of one row (parsePascalCsv, optional fields)
searchVolume(values, cm) ==
    IF cm["search_volume"] # 0 /\ cellOrUndefined(values, cm["search_volume"]) # <<>>
       /\ values[cm["search_volume"]] # <<"-">>
    THEN numberOrUndefined(parseInt(values[cm["search_volume"]]))
    ELSE <<>>

optionalField(values, cm, f) ==
    IF cm[f] # 0 THEN cellOrUndefined(values, cm[f]) ELSE <<>>

\* the three row-level skips of parsePascalCsv
rowHasColumns(values, cm) ==
    ~(Len(values) < MaxOf({cm[f] : f \in ColumnFields}))

\* rowIsKeyword without the skip of a row whose keyword cell is empty
rowIsKeywordAnyText(values, cm) ==
    /\ rowHasColumns(values, cm)
    /\ ~parseInt(values[cm["pascal_id"]]).nan

rowIsKeyword(values, cm) ==
    /\ rowHasColumns(values, cm)
    /\ ~parseInt(values[cm["pascal_id"]]).nan
    /\ values[cm["keyword"]] # <<>>

\* keywordData of a row that is not skipped
keywordData(values, cm) ==
    [pascal_id             |-> parseInt(values[cm["pascal_id"]]).val,
     keyword_text          |-> values[cm["keyword"]],
     monthly_search_volume |-> searchVolume(values, cm),
     domain_url            |-> optionalField(values, cm, "domain_url"),
     site_name             |-> optionalField(values, cm, "site_name"),
     rank_type             |-> optionalField(values, cm, "rank_type"),
     area                  |-> optionalField(values, cm, "area"),
     device_type           |-> optionalField(values, cm, "device_type"),
     landing_page          |-> optionalField(values, cm, "landing_page")]

\* positiveOrUndefined without the test rank > 0
anyNumberOrUndefined(rank) == IF ~rank.nan THEN <<rank.val>> ELSE <<>>

\* a parseInt result kept when it is a number above 0
positiveOrUndefined(rank) == IF ~rank.nan /\ rank.val > 0 THEN <<rank.val>> ELSE <<>>

\* the rank a date cell gives, <<>> when it gives no ranking record
cellRank(values, index) ==
    IF cellOrUndefined(values, index) # <<>> /\ values[index] # <<"-">>
    THEN positiveOrUndefined(parseInt(values[index]))
    ELSE <<>>

\* rankings.push({ pascal_id, date, rank }) when the cell gave a rank
rankingAt(pascalId, date, rank) ==
    IF rank = <<>> THEN <<>>
    ELSE << [pascal_id |-> pascalId, date |-> date, rank |-> rank] >>

RECURSIVE rowRankings(_, _, _, _)
\* dateColumns.forEach over one row, from date column k on
rowRankings(values, pascalId, dcs, k) ==
    IF k > Len(dcs) THEN <<>>
    ELSE rankingAt(pascalId, dcs[k].date, cellRank(values, dcs[k].index))
             \o rowRankings(values, pascalId, dcs, k + 1)

\* one data row added to what the rows after it give
rowParsed(values, cm, dcs, rest) ==
    IF rowIsKeyword(values, cm)
    THEN [keywords |-> <<keywordData(values, cm)>> \o rest.keywords,
          rankings |-> rowRankings(values, parseInt(values[cm["pascal_id"]]).val, dcs, 1)
                           \o rest.rankings]
    ELSE rest

RECURSIVE parseRows(_, _, _, _)
\* the loop over the data rows, from line i on
parseRows(lines, i, cm, dcs) ==
    IF i > Len(lines) THEN [keywords |-> <<>>, rankings |-> <<>>]
    ELSE rowParsed(trimCells(lines[i]), cm, dcs, parseRows(lines, i + 1, cm, dcs))

Threw(message) == [threw |-> <<message>>, keywords |-> <<>>, rankings |-> <<>>]

\* parsePascalCsv once the header row is read
parseWith(lines, cm, dcs) ==
    IF cm["pascal_id"] = 0 \/ cm["keyword"] = 0
    THEN Threw("CSV must contain Pascal ID and keyword columns")
    ELSE IF Len(dcs) = 0
    THEN Threw("No date columns found in CSV")
    ELSE [threw |-> <<>>] @@ parseRows(lines, 2, cm, dcs)

parseLines(lines) ==
    IF Len(lines) < 2
    THEN Threw("CSV must contain at least header and one data row")
    ELSE parseWith(lines, columnMap(trimCells(lines[1])), dateColumns(trimCells(lines[1])))

\* parsePascalCsv(csvContent): threw = <<message>> when it throws
parsePascalCsv(content) == parseLines(trimSplitLines(content))

RowInsufficient == <<"Row 2: Insufficient data", "Row 3: Insufficient data",
                     "Row 4: Insufficient data">>

RECURSIVE sampleRowErrors(_, _, _)
\* lines.slice(1, Math.min(4, lines.length)) checked against half the header
sampleRowErrors(lines, nHeaders, i) ==
    IF i > Len(lines) \/ i > 4 THEN <<>>
    ELSE (IF 2 * Len(lines[i]) < nHeaders THEN <<RowInsufficient[i - 1]>> ELSE <<>>)
         \o sampleRowErrors(lines, nHeaders, i + 1)

hasPascalId(headers) ==
    \E i \in 1..Len(headers) :
        \/ includes(headers[i], ColumnLabels[1].a)
        \/ includes(headers[i], ColumnLabels[1].b)

hasKeyword(headers) ==
    \E i \in 1..Len(headers) :
        \/ includes(headers[i], ColumnLabels[2].a)
        \/ includes(toLowerCase(headers[i]), ColumnLabels[2].b)

dateCount(headers) ==
    Cardinality({i \in 1..Len(headers) :
        \E k \in 1..Len(datePatterns) : headerMatch(headers[i], datePatterns[k]) # <<>>})

validationErrors(lines, headers) ==
    (IF hasPascalId(headers) THEN <<>> ELSE <<"CSV must contain Pascal ID column">>)
      \o (IF hasKeyword(headers) THEN <<>> ELSE <<"CSV must contain keyword column">>)
      \o (IF dateCount(headers) = 0 THEN <<"CSV must contain date columns">> ELSE <<>>)
      \o sampleRowErrors(lines, Len(headers), 2)

validationOf(errors) == [isValid |-> errors = <<>>, errors |-> errors]

validateLines(lines) ==
    IF Len(lines) < 2
    THEN validationOf(<<"CSV must contain at least header and one data row">>)
    ELSE validationOf(validationErrors(lines, trimCells(lines[1])))

\* validatePascalCsv(csvContent)
validatePascalCsv(content) == validateLines(trimSplitLines(content))

(***************************************************************************)
(* The JavaScript Date in the runtime's timezone.                          *)
(* tz = [base, shift, at]: local time is UTC + base hours before the       *)
(* instant at, and UTC + base + shift hours from it on (one daylight-      *)
(* saving transition; shift = 0 is a zone without one).                    *)
(***************************************************************************)
utcOffset(zone, t) == zone.base + (IF zone.shift # 0 /\ t >= zone.at THEN zone.shift ELSE 0)

\* LocalTime(t): the local clock reading of instant t, in hours
localTime(zone, t) == t + utcOffset(zone, t)

\* UTC(local): the instant of a local clock reading.  A reading that occurs
\* twice is the earlier instant; a reading that is skipped is taken with the
\* offset in force before the transition.
utcOfLocal(zone, lt) ==
    IF zone.shift = 0 \/ lt - zone.base < zone.at THEN lt - zone.base
    ELSE IF lt - zone.base - zone.shift >= zone.at THEN lt - zone.base - zone.shift
    ELSE lt - zone.base

localCivil(zone, t) == CivilFromDays(localTime(zone, t) \div 24)

getFullYear(zone, t) == localCivil(zone, t).y
getMonth(zone, t)    == localCivil(zone, t).m - 1
getDate(zone, t)     == localCivil(zone, t).d

\* 0 is Sunday; 1970-01-01 was a Thursday
getDay(zone, t) == ((localTime(zone, t) \div 24) + 4) % 7

\* the instant whose local calendar fields are (y, month0, dt) and whose
\* local time of day is that of t
localInstant(zone, t, y, month0, dt) ==
    utcOfLocal(zone, MakeDay(y, month0, dt) * 24 + (localTime(zone, t) % 24))

setDateOf(zone, t, c, dt) == localInstant(zone, t, c.y, c.m - 1, dt)

\* date.setDate(dt): the local day of the month replaced, the local time of
\* day kept
setDate(zone, t, dt) == setDateOf(zone, t, localCivil(zone, t), dt)

setMonthOf(zone, t, c, month0) == localInstant(zone, t, c.y, month0, c.d)

\* date.setMonth(month0)
setMonth(zone, t, month0) == setMonthOf(zone, t, localCivil(zone, t), month0)

(***************************************************************************)
(* RankChart.tsx                                                           *)
(* A point of aggregatedData is [date, rank, avgRank, minRank, maxRank,    *)
(* dataPoints, isOutOfRange]; rank = <<>> is null.                         *)
(***************************************************************************)
RECURSIVE generateDateRangeFrom(_, _, _)
\* the while loop of generateDateRange, currentDate at instant cur
generateDateRangeFrom(zone, cur, end) ==
    IF cur <= end
    THEN <<toISODate(cur)>>
            \o generateDateRangeFrom(zone, setDate(zone, cur, getDate(zone, cur) + 1), end)
    ELSE <<>>

generateDateRange(zone, start, end) == generateDateRangeFrom(zone, start, end)

RECURSIVE insertByDate(_, _)
insertByDate(sorted, item) ==
    IF sorted = <<>> THEN <<item>>
    ELSE IF DateParse(sorted[Len(sorted)].date) <= DateParse(item.date)
    THEN Append(sorted, item)
    ELSE Append(insertByDate(SubSeq(sorted, 1, Len(sorted) - 1), item), sorted[Len(sorted)])

RECURSIVE sortByDate(_)
\* [...data].sort((a, b) => new Date(a.date).getTime() - new Date(b.date).getTime())
sortByDate(d) ==
    IF d = <<>> THEN <<>>
    ELSE insertByDate(sortByDate(SubSeq(d, 1, Len(d) - 1)), d[Len(d)])

\* outOfRangePoint without the flag: the sentinel point marked as in range
pointWithoutFlag(date) ==
    [date |-> date, rank |-> <<>>, avgRank |-> 101, minRank |-> 101, maxRank |-> 101,
     dataPoints |-> 0, isOutOfRange |-> FALSE]

\* the point of a bucket without data (both the daily and the period branch)
outOfRangePoint(date) ==
    [date |-> date, rank |-> <<>>, avgRank |-> 101, minRank |-> 101, maxRank |-> 101,
     dataPoints |-> 0, isOutOfRange |-> TRUE]

\* the daily point of an item: { ...existingData, avgRank, ... }
dailyPointOf(existingData) ==
    [date |-> existingData.date, rank |-> <<existingData.rank>>,
     avgRank |-> existingData.rank, minRank |-> existingData.rank,
     maxRank |-> existingData.rank, dataPoints |-> 1, isOutOfRange |-> FALSE]

\* the daily point of a date: dataMap.get(date) is the last item of that date
dailyPoint(sortedData, date) ==
    IF \E i \in 1..Len(sortedData) : sortedData[i].date = date
    THEN dailyPointOf(sortedData[MaxOf({i \in 1..Len(sortedData) :
                                            sortedData[i].date = date})])
    ELSE outOfRangePoint(date)

RECURSIVE weeklyPeriodsFrom(_, _, _)
weeklyPeriodsFrom(zone, cur, end) ==
    IF cur <= end
    THEN <<toISODate(cur)>>
            \o weeklyPeriodsFrom(zone, setDate(zone, cur, getDate(zone, cur) + 7), end)
    ELSE <<>>

\* `${getFullYear()}-${String(getMonth() + 1).padStart(2, '0')}-01` of a Date
\* whose local calendar date is c
monthKeyOf(c) == [y |-> c.y, m |-> (c.m - 1) + 1, d |-> 1]

monthKey(zone, t) == monthKeyOf(localCivil(zone, t))

RECURSIVE monthlyPeriodsFrom(_, _, _)
monthlyPeriodsFrom(zone, cur, end) ==
    IF cur <= end
    THEN <<monthKey(zone, cur)>>
            \o monthlyPeriodsFrom(zone, setMonth(zone, cur, getMonth(zone, cur) + 1), end)
    ELSE <<>>

\* diff = date.getDate() - day + (day === 0 ? -6 : 1)
mondayDiff(date, day) == date - day + (IF day = 0 THEN -6 ELSE 1)

\* the Monday of the local week of instant t, as setDate(diff) leaves it
startOfWeek(zone, t) == setDate(zone, t, mondayDiff(getDate(zone, t), getDay(zone, t)))

generatePeriodRange(zone, start, end, type) ==
    IF type = "weekly"
    THEN weeklyPeriodsFrom(zone, startOfWeek(zone, start), end)
    ELSE monthlyPeriodsFrom(zone, setDate(zone, start, 1), end)

\* groupKey of an item whose date parses to the instant date
groupKeyAt(zone, date, type) ==
    IF type = "weekly" THEN toISODate(startOfWeek(zone, date)) ELSE monthKey(zone, date)

\* groupKey of one item
groupKey(zone, item, type) == groupKeyAt(zone, DateParse(item.date), type)

RECURSIVE SumSeq(_)
SumSeq(q) == IF q = <<>> THEN 0 ELSE q[1] + SumSeq(Tail(q))


\* Math.round(sum / n) for sum >= 0, n > 0: halves round up
roundDiv(sum, n) == (2 * sum + n) \div (2 * n)

RECURSIVE groupRanks(_, _, _, _)
\* groups.get(periodKey).map(item => item.rank), in the order of sortedData
groupRanks(zone, sortedData, type, periodKey) ==
    IF sortedData = <<>> THEN <<>>
    ELSE (IF groupKey(zone, sortedData[1], type) = periodKey
          THEN <<sortedData[1].rank>> ELSE <<>>)
         \o groupRanks(zone, Tail(sortedData), type, periodKey)

\* the point of a period with data
periodPointOf(periodKey, ranks, avgRank) ==
    [date |-> periodKey, rank |-> <<avgRank>>, avgRank |-> avgRank,
     minRank |-> MinOf({ranks[i] : i \in 1..Len(ranks)}),
     maxRank |-> MaxOf({ranks[i] : i \in 1..Len(ranks)}),
     dataPoints |-> Len(ranks), isOutOfRange |-> FALSE]

\* groupPoint with the sentinel 101 counted as one more rank of the group
groupPointWithSentinel(periodKey, ranks) ==
    periodPointOf(periodKey, Append(ranks, 101),
                  roundDiv(SumSeq(ranks) + 101, Len(ranks) + 1))

\* the point of a period whose group holds the ranks given
groupPoint(periodKey, ranks) ==
    IF Len(ranks) > 0
    THEN periodPointOf(periodKey, ranks, roundDiv(SumSeq(ranks), Len(ranks)))
    ELSE outOfRangePoint(periodKey)

periodPoint(zone, sortedData, type, periodKey) ==
    groupPoint(periodKey, groupRanks(zone, sortedData, type, periodKey))

dailyPoints(sortedData, allDates) ==
    [i \in 1..Len(allDates) |-> dailyPoint(sortedData, allDates[i])]

periodPoints(zone, sortedData, type, allPeriods) ==
    [i \in 1..Len(allPeriods) |-> periodPoint(zone, sortedData, type, allPeriods[i])]

\* the series over the range from dateRangeStart to dateRangeEnd
pointsOver(zone, sortedData, type, dateRangeStart, dateRangeEnd) ==
    IF type = "daily"
    THEN dailyPoints(sortedData, generateDateRange(zone, dateRangeStart, dateRangeEnd))
    ELSE periodPoints(zone, sortedData, type,
                      generatePeriodRange(zone, dateRangeStart, dateRangeEnd, type))

\* the useMemo body once the data are sorted; start and end are <<>> or <<date>>
aggregate(zone, sortedData, start, end, type) ==
    IF start # <<>> /\ end # <<>>
    THEN pointsOver(zone, sortedData, type, DateParse(start[1]), DateParse(end[1]))
    ELSE IF Len(sortedData) > 0
    THEN pointsOver(zone, sortedData, type, DateParse(sortedData[1].date),
                    DateParse(sortedData[Len(sortedData)].date))
    ELSE <<>>

\* the useMemo body of aggregatedData
aggregatedData(zone, d, start, end, type) ==
    aggregate(zone, sortByDate(d), start, end, type)

\* validRanks without the filter: the avgRank of every point
allAvgRanks(points) == {points[i].avgRank : i \in 1..Len(points)}

\* aggregatedData.filter(item => !item.isOutOfRange && item.rank !== null)
\* .map(item => item.rank), as a set
validRanks(points) ==
    {points[i].rank[1] :
        i \in {j \in 1..Len(points) : ~points[j].isOutOfRange /\ points[j].rank # <<>>}}

domainOf(ranks) ==
    IF ranks = {} THEN [lo |-> 1, hi |-> <<100>>]
    ELSE [lo |-> 1, hi |-> <<MaxOf(ranks) + 5>>]

\* the useMemo body of yAxisDomain: [lo, hi], hi = <<>> is 'auto'
yAxisDomain(points) ==
    IF Len(points) = 0 THEN [lo |-> 1, hi |-> <<>>] ELSE domainOf(validRanks(points))

rendering(points) == [aggregatedData |-> points, yAxisDomain |-> yAxisDomain(points)]

\* one render of RankChart
render(zone, d, start, end, type) == rendering(aggregatedData(zone, d, start, end, type))

(***************************************************************************)
(* pascalSupabase.ts: the store behind pascalKeywordService and            *)
(* pascalRankingService, and importPascalCsv.                              *)
(* pascal_keywords holds rows [id, pascal_id, keyword_text, ...], unique   *)
(* on pascal_id; pascal_daily_rankings holds rows [pascal_keyword_id,      *)
(* date, rank], unique on (pascal_keyword_id, date).  The columns          *)
(* created_at and updated_at are not modelled.                             *)
(***************************************************************************)
OptionalColumns == {"monthly_search_volume", "domain_url", "site_name", "rank_type",
                    "area", "device_type", "landing_page"}

\* pascalKeywordService.upsert(keyword) when it succeeds: the table after an
\* upsert with onConflict: 'pascal_id'.  A row with that pascal_id takes the
\* columns the payload carries (an undefined property is not sent); without
\* one a row with the fresh id uuid is inserted.
updatedRow(old, keyword) ==
    [c \in DOMAIN old |->
        IF c = "id" THEN old.id
        ELSE IF c \in OptionalColumns /\ keyword[c] = <<>> THEN old[c]
        ELSE keyword[c]]

replacedRow(table, old, keyword) == (table \ {old}) \cup {updatedRow(old, keyword)}

insertKeyword(table, keyword, uuid) == table \cup {[id |-> uuid] @@ keyword}

upsertKeyword(table, keyword, uuid) ==
    IF \E row \in table : row.pascal_id = keyword.pascal_id
    THEN replacedRow(table, CHOOSE row \in table : row.pascal_id = keyword.pascal_id,
                     keyword)
    ELSE table \cup {[id |-> uuid] @@ keyword}

\* the id of the row the upsert returns (.select().single())
upsertedId(table, keyword, uuid) ==
    IF \E row \in table : row.pascal_id = keyword.pascal_id
    THEN (CHOOSE row \in table : row.pascal_id = keyword.pascal_id).id
    ELSE uuid

\* no two records of the list have the same pascal_keyword_id and date.  An
\* INSERT ... ON CONFLICT DO UPDATE of a list that has two is rejected by
\* the database (it cannot affect a row a second time).
conflictFree(rankings) ==
    \A m \in 1..Len(rankings) : \A n \in 1..Len(rankings) :
        (rankings[m].pascal_keyword_id = rankings[n].pascal_keyword_id
            /\ rankings[m].date = rankings[n].date) => m = n

replaceRankings(table, rankings) ==
    {row \in table : \A n \in 1..Len(rankings) :
                         row.pascal_keyword_id # rankings[n].pascal_keyword_id}
        \cup {rankings[n] : n \in 1..Len(rankings)}

RECURSIVE bulkUpsertRankings(_, _)
\* pascalRankingService.bulkUpsertRankings(rankings) when it succeeds: the
\* table after an upsert with onConflict: 'pascal_keyword_id,date', the
\* records applied in the order of the list
bulkUpsertRankings(table, rankings) ==
    IF rankings = <<>> THEN table
    ELSE bulkUpsertRankings(
            {row \in table : ~(row.pascal_keyword_id = rankings[1].pascal_keyword_id
                               /\ row.date = rankings[1].date)}
                \cup {rankings[1]},
            Tail(rankings))

\* scaled: KEYWORD_BATCH_SIZE is 50 and RANKING_BATCH_SIZE 100 in the source
KEYWORD_BATCH_SIZE == 2
RANKING_BATCH_SIZE == 2

Min2(a, b) == IF a < b THEN a ELSE b

NoResult == [success |-> FALSE, totalKeywords |-> 0, importedKeywords |-> 0,
             updatedKeywords |-> 0, totalRankings |-> 0, importedRankings |-> 0,
             errors |-> <<>>]

\* one entry of result.errors
ImportError(kind, pascalId, message) ==
    [kind |-> kind, pascal_id |-> pascalId, message |-> message]

\* The state of one call of importPascalCsv.  pc is where it stands ("done":
\* it has returned result; "threw": it has thrown); outstanding holds the
\* keywords (by index) whose upsert is awaited, request the bulk upsert that
\* is awaited.  calls counts the persistence calls issued, okCalls and
\* failedCalls those that succeeded and failed, okRows and failedRows the
\* keywords whose upsert succeeded and failed.  progress holds the stage
\* positions of the progressCallback?.( ) calls; sink tells whether a
\* progressCallback was given ("absent", "present", or "failing": one that
\* throws when it is called for the failsAt-th time).
IdleImport == [pc |-> "idle", result |-> NoResult, keywordIdMap |-> <<>>,
               i |-> 0, outstanding |-> {}, key |-> 0, j |-> 0,
               processedKeywords |-> 0, progress |-> <<>>, request |-> <<>>,
               calls |-> 0, okCalls |-> 0, failedCalls |-> 0,
               okRows |-> {}, failedRows |-> {},
               sink |-> "absent", failsAt |-> 0]

\* hist.runs counts the imports started; hist.before is the store when the
\* current import started; hist.ends has one entry per finished import
NoHistory == [runs |-> 0, before |-> <<>>, ends |-> <<>>]

RECURSIVE distinctIds(_, _)
\* the keys of rankingsByKeyword in insertion order
distinctIds(rankings, seen) ==
    IF rankings = <<>> THEN <<>>
    ELSE IF rankings[1].pascal_id \in seen THEN distinctIds(Tail(rankings), seen)
    ELSE <<rankings[1].pascal_id>>
            \o distinctIds(Tail(rankings), seen \cup {rankings[1].pascal_id})

rankingKeys(csvData) == distinctIds(csvData.rankings, {})

RECURSIVE rankingsFor(_, _)
rankingsFor(rankings, pascalId) ==
    IF rankings = <<>> THEN <<>>
    ELSE (IF rankings[1].pascal_id = pascalId THEN <<rankings[1]>> ELSE <<>>)
         \o rankingsFor(Tail(rankings), pascalId)

\* rankingsByKeyword.get(pascalId)
rankingsOf(csvData, pascalId) == rankingsFor(csvData.rankings, pascalId)

\* list.slice(j)
sliceToEnd(list, j, size) == SubSeq(list, j + 1, Len(list))

\* list.slice(j, j + size)
slice(list, j, size) == SubSeq(list, j + 1, Min2(j + size, Len(list)))

\* batch.map(r => ({ pascal_keyword_id: keywordId, date: r.date, rank: r.rank }))
rankingData(batch, keywordId) ==
    [n \in 1..Len(batch) |->
        [pascal_keyword_id |-> keywordId, date |-> batch[n].date, rank |-> batch[n].rank]]

\* rankingBatch that takes the batch at offset 0 whatever j is
rankingBatchFirst(csvData, pascalId, keywordId, j) ==
    rankingData(slice(rankingsOf(csvData, pascalId), 0, RANKING_BATCH_SIZE), keywordId)

\* the request of the batch at offset j of the rankings of pascalId
rankingBatch(csvData, pascalId, keywordId, j) ==
    rankingData(slice(rankingsOf(csvData, pascalId), j, RANKING_BATCH_SIZE), keywordId)

\* the indexes (from 1) of csvData.keywords.slice(i, i + KEYWORD_BATCH_SIZE)
keywordBatch(csvData, i) == (i + 1)..Min2(i + KEYWORD_BATCH_SIZE, Len(csvData.keywords))

\* keywordProgress taken at the end of the batch and without the cap
keywordProgressAtBatchEnd(i, n) == 3 + (((i + KEYWORD_BATCH_SIZE) * 4) \div n)

\* Math.min(7, 3 + Math.floor((i / keywords.length) * 4))
keywordProgress(i, n) == Min2(7, 3 + ((i * 4) \div n))

\* 8 + Math.floor((processedKeywords / totalKeywordsWithRankings) * 2)
rankingProgress(processed, total) == 8 + ((processed * 2) \div total)

\* the call progressCallback?.( ) that comes next is the one the sink fails
sinkThrowsNext(st) == st.sink = "failing" /\ Len(st.progress) + 1 = st.failsAt

\* the outer catch of importPascalCsv: one more error, return result
caught(st, message) ==
    [st EXCEPT !.pc = "done", !.request = <<>>, !.outstanding = {},
               !.result.errors = Append(st.result.errors,
                                        ImportError("failed", 0, message))]

\* finalize with success = true whatever the errors
finalizeAsSuccess(st) ==
    [st EXCEPT !.pc = "done", !.progress = Append(st.progress, 10),
               !.result.success = TRUE, !.request = <<>>]

\* the end of importPascalCsv: progress 10, success, return
finalize(st) ==
    IF sinkThrowsNext(st)
    THEN caught([st EXCEPT !.progress = Append(st.progress, 10)], "progressCallback")
    ELSE [st EXCEPT !.pc = "done",
                    !.progress = Append(st.progress, 10),
                    !.result.success = (st.result.errors = <<>>),
                    !.request = <<>>]

\* the loop over rankingsByKeyword without the test of keywordId: the
\* rankings of a key without an id are sent under id 0
rankingRequestUntested(st, csvData, keys) ==
    IF st.key > Len(keys) THEN finalize(st)
    ELSE [st EXCEPT !.j = 0,
                    !.calls = st.calls + 1,
                    !.request = <<rankingBatch(csvData, keys[st.key],
                                     IF keys[st.key] \in DOMAIN st.keywordIdMap
                                     THEN st.keywordIdMap[keys[st.key]] ELSE 0, 0)>>]

RECURSIVE rankingRequestFrom(_, _, _)
\* The loop over rankingsByKeyword (its keys in keys) from key number st.key
\* on, up to the next await: a key without an id in keywordIdMap adds an
\* error and is passed over; the first key with one has its batch at offset
\* 0 sent; after the last key the import finalizes.
rankingRequestFrom(st, csvData, keys) ==
    IF st.key > Len(keys) THEN finalize(st)
    ELSE IF keys[st.key] \notin DOMAIN st.keywordIdMap
    THEN rankingRequestFrom(
            [st EXCEPT !.key = st.key + 1,
                       !.result.errors = Append(st.result.errors,
                           ImportError("rankings", keys[st.key],
                                       "Keyword not found, skipping rankings"))],
            csvData, keys)
    ELSE [st EXCEPT !.j = 0,
                    !.calls = st.calls + 1,
                    !.request = <<rankingBatch(csvData, keys[st.key],
                                               st.keywordIdMap[keys[st.key]], 0)>>]

nextRankingRequest(st, csvData) == rankingRequestFrom(st, csvData, rankingKeys(csvData))

\* the upserts of the keywords batch at offset i are sent
sendKeywords(st, batch, i) ==
    [st EXCEPT !.i = i, !.outstanding = batch, !.calls = st.calls + Cardinality(batch)]

\* the progress report after the batch at offset st.i of n keywords; an
\* error of the sink goes to the outer catch
toldKeywords(st, n) ==
    IF sinkThrowsNext(st)
    THEN caught([st EXCEPT !.progress = Append(st.progress, keywordProgress(st.i, n))],
                "progressCallback")
    ELSE [st EXCEPT !.progress = Append(st.progress, keywordProgress(st.i, n))]

\* progress 7 and the first ranking request
toldSeven(st, csvData) ==
    IF sinkThrowsNext(st)
    THEN caught([st EXCEPT !.progress = Append(st.progress, 7)], "progressCallback")
    ELSE nextRankingRequest(
            [st EXCEPT !.pc = "rankings", !.key = 1,
                       !.progress = Append(st.progress, 7)],
            csvData)

\* the next round of the keyword loop, or progress 7 and the first ranking
\* request
continueKeywords(told, csvData, next_i) ==
    IF told.pc = "done" THEN told
    ELSE IF next_i < Len(csvData.keywords)
    THEN sendKeywords(told, keywordBatch(csvData, next_i), next_i)
    ELSE toldSeven(told, csvData)

\* what follows await Promise.all(batchPromises) for the batch at offset st.i
afterKeywordBatch(st, csvData) ==
    continueKeywords(toldKeywords(st, Len(csvData.keywords)), csvData,
                     st.i + KEYWORD_BATCH_SIZE)

\* importPascalCsv after progressCallback(1, ...)
importStarted == [IdleImport EXCEPT !.progress = <<1>>]

\* validation failed: result.errors = validation.errors; return
rejected(v) ==
    [importStarted EXCEPT !.pc = "done",
                          !.result.errors =
                              [n \in 1..Len(v.errors) |->
                                  ImportError("validation", 0, v.errors[n])]]

\* failedImport without the outer catch: the error of parsePascalCsv leaves
\* importPascalCsv as a thrown error
rethrown(message) == [importStarted EXCEPT !.pc = "threw", !.progress = <<1, 2>>]

\* parsePascalCsv threw: the outer catch
failedImport(message) ==
    [importStarted EXCEPT !.pc = "done", !.progress = <<1, 2>>,
                          !.result.errors = <<ImportError("failed", 0, message)>>]

counted(csvData) ==
    [importStarted EXCEPT !.progress = <<1, 2>>,
                          !.result.totalKeywords = Len(csvData.keywords),
                          !.result.totalRankings = Len(csvData.rankings)]

importParsed(csvData) ==
    IF csvData.threw # <<>> THEN failedImport(csvData.threw[1])
    ELSE IF Len(csvData.keywords) = 0
    THEN [counted(csvData) EXCEPT !.pc = "done",
                                  !.result.errors =
                                      <<ImportError("empty", 0,
                                                    "No valid keywords found in CSV")>>]
    ELSE sendKeywords([counted(csvData) EXCEPT !.pc = "keywords",
                                                !.progress = <<1, 2, 3>>],
                      keywordBatch(csvData, 0), 0)

importValidated(content, v) ==
    IF ~v.isValid THEN rejected(v) ELSE importParsed(parsePascalCsv(content))

\* importPascalCsv from its call to its first await or early return
startImport(content) == importValidated(content, validatePascalCsv(content))

withSink(st, sink, n) == [st EXCEPT !.sink = sink, !.failsAt = n]

\* importPascalCsv(content, progressCallback) from its call to its first
\* await or return: the first three reports are made before any await
startImportWith(content, sink, n) ==
    IF sink = "failing" /\ n = 1
    THEN caught(withSink(importStarted, sink, n), "progressCallback")
    ELSE IF ~validatePascalCsv(content).isValid
    THEN withSink(startImport(content), sink, n)
    ELSE IF sink = "failing" /\ n = 2
    THEN caught(withSink([importStarted EXCEPT !.progress = <<1, 2>>], sink, n),
                "progressCallback")
    ELSE IF parsePascalCsv(content).threw # <<>>
              \/ Len(parsePascalCsv(content).keywords) = 0
    THEN withSink(startImport(content), sink, n)
    ELSE IF sink = "failing" /\ n = 3
    THEN caught(withSink([counted(parsePascalCsv(content))
                              EXCEPT !.progress = <<1, 2, 3>>], sink, n),
                "progressCallback")
    ELSE withSink(startImport(content), sink, n)

withId(map, pascalId, id) ==
    [x \in DOMAIN map \cup {pascalId} |-> IF x = pascalId THEN id ELSE map[x]]

\* the loop goes on after the first upsert of a batch that settles
notAwaited(st, csvData) == afterKeywordBatch(st, csvData)

\* when the last upsert of a batch has settled, Promise.all resolves
settled(st, csvData) ==
    IF st.outstanding = {} THEN afterKeywordBatch(st, csvData) ELSE st

\* the upsert of keyword number k has returned the row with this id
\* (lines 199-202)
keywordSucceeded(st, csvData, k, id) ==
    settled([st EXCEPT !.keywordIdMap =
                           withId(st.keywordIdMap, csvData.keywords[k].pascal_id, id),
                       !.result.importedKeywords = st.result.importedKeywords + 1,
                       !.okCalls = st.okCalls + 1,
                       !.okRows = st.okRows \cup {k},
                       !.outstanding = st.outstanding \ {k}],
            csvData)

\* keywordFailed without result.errors.push
keywordFailedSilently(st, csvData, k) ==
    settled([st EXCEPT !.failedCalls = st.failedCalls + 1,
                       !.failedRows = st.failedRows \cup {k},
                       !.outstanding = st.outstanding \ {k}],
            csvData)

\* the upsert of keyword number k has thrown (lines 203-207)
keywordFailed(st, csvData, k) ==
    settled([st EXCEPT !.result.errors = Append(st.result.errors,
                           ImportError("keyword", csvData.keywords[k].pascal_id,
                                       "Failed to import keyword")),
                       !.failedCalls = st.failedCalls + 1,
                       !.failedRows = st.failedRows \cup {k},
                       !.outstanding = st.outstanding \ {k}],
            csvData)

\* what follows a bulk upsert that succeeded: the next batch of the key, or
\* the progress report and the next key; the report is made inside the try
\* of the key, so an error of the sink goes to the catch of lines 264-268
afterBulkUpsert(st, csvData, keys, next_j) ==
    IF next_j < Len(rankingsOf(csvData, keys[st.key]))
    THEN [st EXCEPT !.j = next_j,
                    !.calls = st.calls + 1,
                    !.request = <<rankingBatch(csvData, keys[st.key],
                                               st.keywordIdMap[keys[st.key]], next_j)>>]
    ELSE rankingRequestFrom(
            [st EXCEPT !.processedKeywords = st.processedKeywords + 1,
                       !.progress = Append(st.progress,
                                           rankingProgress(st.processedKeywords + 1, Len(keys))),
                       !.result.errors =
                            IF sinkThrowsNext(st)
                            THEN Append(st.result.errors,
                                        ImportError("rankings", keys[st.key],
                                                    "Failed to import rankings"))
                            ELSE st.result.errors,
                       !.key = st.key + 1,
                       !.request = <<>>],
            csvData, keys)

\* the bulk upsert that was awaited has returned (lines 255-262)
bulkSucceeded(st, csvData) ==
    afterBulkUpsert([st EXCEPT !.result.importedRankings =
                                   st.result.importedRankings + Len(st.request[1]),
                               !.okCalls = st.okCalls + 1],
                    csvData, rankingKeys(csvData), st.j + RANKING_BATCH_SIZE)

\* the bulk upsert that was awaited has thrown: the catch of lines 264-268
\* ends the batches of this key
bulkFailed(st, csvData) ==
    nextRankingRequest([st EXCEPT !.result.errors = Append(st.result.errors,
                                      ImportError("rankings", rankingKeys(csvData)[st.key],
                                                  "Failed to import rankings")),
                                  !.failedCalls = st.failedCalls + 1,
                                  !.key = st.key + 1,
                                  !.request = <<>>],
                       csvData)

\* committed.keywords[pascal_id] is the payload of the keyword upsert that
\* committed last for pascal_id, committed.rankings[<<id, date>>] the rank of
\* the ranking upsert that committed last for the pair
NoCommits == [keywords |-> <<>>, rankings |-> <<>>]

keywordCommitted(c, keyword) ==
    [c EXCEPT !.keywords = withId(c.keywords, keyword.pascal_id, keyword)]

RECURSIVE rankingsCommitted(_, _)
rankingsCommitted(c, rankings) ==
    IF rankings = <<>> THEN c
    ELSE rankingsCommitted(
            [c EXCEPT !.rankings =
                withId(c.rankings, <<rankings[1].pascal_keyword_id, rankings[1].date>>,
                       rankings[1].rank)],
            Tail(rankings))

\* Dashboard.handleImportCsv once importPascalCsv has returned result: an
\* unsuccessful result with errors is thrown as an Error, any other is
\* followed by the refresh of the keyword list
handleImportCsv(result) ==
    IF ~result.success /\ Len(result.errors) > 0 THEN "thrown" ELSE "refreshed"

(***************************************************************************)
(* Parser runs: validatePascalCsv and parsePascalCsv applied to a file     *)
(* drawn from bounded pools of header rows and data rows.                  *)
(***************************************************************************)
c_PascalID == <<"P","a","s","c","a","l"," ","I","D">>
c_ID       == <<"I","D">>
c_Keyword  == <<"U+30AD","U+30FC","U+30EF","U+30FC","U+30C9">>      \* キーワード
c_keyword  == <<"K","e","y","w","o","r","d">>
c_Area     == <<"U+30A8","U+30EA","U+30A2">>                        \* エリア
c_IdAndKeyword == <<"P","a","s","c","a","l"," ","I","D"," ","k","e","y","w","o","r","d">>
c_Jan1jp   == <<"2","0","2","5","U+5E74","1","U+6708","1","U+65E5">>   \* 2025年1月1日
c_Jan2jp   == <<"2","0","2","5","U+5E74","1","U+6708","2","U+65E5">>   \* 2025年1月2日
c_Jan1sl   == <<"2","0","2","5","/","1","/","1">>
c_Jan2iso  == <<"2","0","2","5","-","0","1","-","0","2">>
c_foo == <<"f","o","o">>
c_bar == <<"b","a","r">>
c_baz == <<"b","a","z">>
c_qux == <<" ","q","u","x"," ">>

\* "Pascal ID,キーワード,2025年1月1日,2025年1月2日"
HeaderPascal == <<c_PascalID, c_Keyword, c_Jan1jp, c_Jan2jp>>
\* "ID,キーワード,2025年1月1日,2025年1月2日"
HeaderID     == <<c_ID, c_Keyword, c_Jan1jp, c_Jan2jp>>

\* "Pascal ID,キーワード,Keyword,2025/1/1"
HeaderTwoKeywords == <<c_PascalID, c_Keyword, c_keyword, c_Jan1sl>>

HeaderPool == {
    HeaderPascal,
    HeaderID,
    <<c_PascalID, c_keyword, c_Area, c_Jan1sl, c_Jan2iso>>,
    <<c_PascalID, c_Keyword, c_Jan1jp, c_Area>>,
    <<c_PascalID, c_Keyword>>,
    <<c_Keyword, c_Jan1jp>>,
    <<c_PascalID, c_Jan1jp>>,
    <<c_IdAndKeyword, c_Jan1sl>>,
    HeaderTwoKeywords }

\* "7,foo,5,-"
Row7foo == << <<"7">>, c_foo, <<"5">>, <<"-">> >>

RowPool == {
    Row7foo,
    << <<"8">>, c_bar, <<>>, <<"1","2">> >>,
    << <<"7">>, c_foo, <<"5">> >>,
    << <<"x">>, c_foo, <<"5">>, <<"3">> >>,
    << <<"9">>, <<>>, <<"4">>, <<"4">> >>,
    << <<"7">>, c_baz, <<"0">>, <<"-","3">> >>,
    << <<" ","1","0"," ">>, c_qux, <<"a","b","c">>, <<" ","2"," ">> >>,
    << <<>> >> }

\* the largest number of data rows of a file
MaxRows == 2

RECURSIVE SeqsUpTo(_, _)
\* the sequences over S of length at most n
SeqsUpTo(S, n) ==
    IF n = 0 THEN {<<>>}
    ELSE LET shorter == SeqsUpTo(S, n - 1)
         IN  shorter \cup {Append(q, e) : q \in {r \in shorter : Len(r) = n - 1}, e \in S}

ParserFiles == {<<h>> \o rows : h \in HeaderPool, rows \in SeqsUpTo(RowPool, MaxRows)}
                 \cup {<< << <<>> >> >>}

NoChart == /\ tz = [base |-> 0, shift |-> 0, at |-> 0]
           /\ data = <<>> /\ startDate = <<>> /\ endDate = <<>>
           /\ aggregation = "daily"
           /\ rendered = <<[aggregatedData |-> <<>>, yAxisDomain |-> [lo |-> 1, hi |-> <<>>]]>>

NoStore == /\ pascal_keywords = {} /\ pascal_daily_rankings = {}
           /\ nextUuid = 1 /\ imp = IdleImport /\ hist = NoHistory

\* The state of the Dashboard component before it is mounted (the useState
\* initial values, part_007 lines 17-27; '' and null are <<>>).  pending
\* holds the getPascalRankingData calls awaited, numbered in the order of
\* their issue; issued counts them, answered holds the numbers of those
\* that returned data and settledOrder the numbers in the order they
\* settled; awaitingPeriod counts the calculateAllTimePeriod calls awaited.
IdleDashboard ==
    [keywords |-> <<>>, selectedKeywordId |-> <<>>, startDate |-> <<>>, endDate |-> <<>>,
     selectedPeriod |-> "all_time", rankingData |-> <<>>, isLoadingData |-> FALSE,
     awaitingKeywords |-> FALSE, awaitingPeriod |-> 0,
     pending |-> {}, issued |-> 0, answered |-> {}, settledOrder |-> <<>>]

NoAuthCalls == [pending |-> {}, delivered |-> {}, calls |-> 0]

NoSecondImport == imp2 = IdleImport /\ parsed2 = <<>> /\ committed = NoCommits

NoAuth == auth = NoAuthCalls

NoSink == ref = IdleImport

NoDashboard == dash = IdleDashboard

InitParse ==
    /\ csvContent \in ParserFiles
    /\ validation = <<>>
    /\ parsed = <<>>
    /\ NoChart
    /\ NoStore
    /\ NoSecondImport
    /\ NoAuth
    /\ NoSink
    /\ NoDashboard

Validate ==
    /\ validation = <<>>
    /\ validation' = <<validatePascalCsv(csvContent)>>
    /\ UNCHANGED <<csvContent, parsed, chartVars, storeVars, imp, hist, ref, twoVars, auth, dash>>

Parse ==
    /\ parsed = <<>>
    /\ parsed' = <<parsePascalCsv(csvContent)>>
    /\ UNCHANGED <<csvContent, validation, chartVars, storeVars, imp, hist, ref, twoVars, auth, dash>>

NextParse == Validate \/ Parse

SpecParse == InitParse /\ [][NextParse]_vars

(***************************************************************************)
(* Properties of the parser                                                *)
(***************************************************************************)
\* validatePascalCsv has accepted the file and parsePascalCsv has returned
acceptedAndParsed ==
    /\ validation # <<>> /\ validation[1].isValid
    /\ parsed # <<>> /\ parsed[1].threw = <<>>

\* the data rows whose identifier cell parses as an integer and whose
\* keyword cell is not empty; a cell the row does not have is neither
validRows(lines, cm) ==
    {i \in 2..Len(lines) :
        /\ cm["pascal_id"] <= Len(lines[i])
        /\ ~parseInt(trim(lines[i][cm["pascal_id"]])).nan
        /\ cm["keyword"] <= Len(lines[i])
        /\ trim(lines[i][cm["keyword"]]) # <<>>}

\* the data rows with a cell in every column the header maps to a field
fullRows(lines, cm) ==
    {i \in 2..Len(lines) : \A f \in ColumnFields : cm[f] <= Len(lines[i])}

validRowsOf(lines) == validRows(lines, columnMap(trimCells(lines[1])))

fullRowsOf(lines) == fullRows(lines, columnMap(trimCells(lines[1])))

\* C3 as stated: for a file the validation accepts, parsePascalCsv returns
\* as many keywords as there are data rows whose identifier cell parses as
\* an integer and whose keyword cell is not empty.
C3_KeywordsAreValidRows ==
    acceptedAndParsed =>
        Len(parsed[1].keywords) = Cardinality(validRowsOf(trimSplitLines(csvContent)))

\* C3 amended: for a file the validation accepts, parsePascalCsv returns as
\* many keywords as there are data rows that have a cell in every column the
\* header maps to a field, whose identifier cell parses as an integer and
\* whose keyword cell is not empty.
C3_KeywordsAreFullValidRows ==
    acceptedAndParsed =>
        Len(parsed[1].keywords) =
            Cardinality(validRowsOf(trimSplitLines(csvContent))
                            \cap fullRowsOf(trimSplitLines(csvContent)))

\* C3 witness: a file the validation accepts, with a row without a keyword
\* text and a row shorter than the header's last mapped column, has been
\* parsed, and no keyword came of it
C3_Witness ==
    /\ acceptedAndParsed
    /\ csvContent = << <<c_PascalID, c_Keyword, c_Jan1jp, c_Area>>,
                       << <<"7">>, c_foo, <<"5">> >>,
                       << <<"9">>, <<>>, <<"4">>, <<"4">> >> >>
    /\ parsed[1].keywords = <<>>

\* a header cell matches a field when, letter case aside, it contains one of
\* the two labels of the field
matchesField(h, k) ==
    \/ includes(toLowerCase(h), toLowerCase(ColumnLabels[k].a))
    \/ includes(toLowerCase(h), toLowerCase(ColumnLabels[k].b))

\* the first column, in column order, whose cell matches the field of
\* branch k; 0 when there is none
firstColumn(headers, k) ==
    IF \E i \in 1..Len(headers) : matchesField(headers[i], k)
    THEN CHOOSE i \in 1..Len(headers) :
            /\ matchesField(headers[i], k)
            /\ \A j \in 1..(i - 1) : ~matchesField(headers[j], k)
    ELSE 0

firstColumns(headers) ==
    [f \in ColumnFields |->
        firstColumn(headers, CHOOSE k \in 1..Len(ColumnLabels) : ColumnLabels[k].field = f)]

\* no field is matched by two cells of the header
noFieldTwice(headers) ==
    \A k \in 1..Len(ColumnLabels) :
        Cardinality({i \in 1..Len(headers) : matchesField(headers[i], k)}) <= 1

headersOf(content) == trimCells(trimSplitLines(content)[1])

\* C23: what parsePascalCsv returns for a file the validation accepts is
\* what the rows give when every field is read from the first column, in
\* column order, whose header cell contains a label of the field, letter
\* case aside.
C23_FirstMatchingColumn ==
    acceptedAndParsed =>
        /\ columnMap(headersOf(csvContent)) = firstColumns(headersOf(csvContent))
        /\ parsed[1] = parseWith(trimSplitLines(csvContent),
                                 firstColumns(headersOf(csvContent)),
                                 dateColumns(headersOf(csvContent)))

\* C23, the part that holds: the same for the files in whose header no two
\* cells match the same field.
C23_SingleMatchingColumn ==
    (acceptedAndParsed /\ noFieldTwice(headersOf(csvContent))) =>
        /\ columnMap(headersOf(csvContent)) = firstColumns(headersOf(csvContent))
        /\ parsed[1] = parseWith(trimSplitLines(csvContent),
                                 firstColumns(headersOf(csvContent)),
                                 dateColumns(headersOf(csvContent)))

\* the keyword and the ranking of the row "7,foo,5,-" under the two dates
Keyword7foo ==
    [pascal_id |-> 7, keyword_text |-> c_foo, monthly_search_volume |-> <<>>,
     domain_url |-> <<>>, site_name |-> <<>>, rank_type |-> <<>>, area |-> <<>>,
     device_type |-> <<>>, landing_page |-> <<>>]

Ranking7Jan1 == [pascal_id |-> 7, date |-> [y |-> 2025, m |-> 1, d |-> 1], rank |-> <<5>>]

parsedAs7foo ==
    /\ validation[1].isValid
    /\ parsed[1].threw = <<>>
    /\ parsed[1].keywords = <<Keyword7foo>>
    /\ parsed[1].rankings = <<Ranking7Jan1>>

\* C4 as stated: the file "ID,キーワード,2025年1月1日,2025年1月2日" / "7,foo,5,-"
\* is accepted and parses to the one keyword (7, foo) and the one ranking
\* (7, 2025-01-01, 5), none for 2025-01-02.
C4_HeaderIdParses ==
    (csvContent = <<HeaderID, Row7foo>> /\ validation # <<>> /\ parsed # <<>>) =>
        parsedAs7foo

\* C4 amended: the file "Pascal ID,キーワード,2025年1月1日,2025年1月2日" /
\* "7,foo,5,-" is accepted and parses to the one keyword (7, foo) and the
\* one ranking (7, 2025-01-01, 5), none for 2025-01-02; with the identifier
\* column labelled "ID" the validation rejects the file for its missing
\* Pascal ID column and parsePascalCsv throws.
C4_HeaderPascalIdParses ==
    /\ (csvContent = <<HeaderPascal, Row7foo>> /\ validation # <<>> /\ parsed # <<>>) =>
          parsedAs7foo
    /\ (csvContent = <<HeaderID, Row7foo>> /\ validation # <<>> /\ parsed # <<>>) =>
          /\ validation[1] = [isValid |-> FALSE,
                              errors |-> <<"CSV must contain Pascal ID column">>]
          /\ parsed[1] = Threw("CSV must contain Pascal ID and keyword columns")

\* C4 witness: the file with the header "Pascal ID,..." and the row
\* "7,foo,5,-" has been validated and parsed into one keyword and one ranking
C4_Witness ==
    /\ csvContent = <<HeaderPascal, Row7foo>>
    /\ validation # <<>> /\ parsed # <<>>
    /\ Len(parsed[1].keywords) = 1 /\ Len(parsed[1].rankings) = 1

(***************************************************************************)
(* Chart runs: RankChart rendered for props drawn from bounded pools, in   *)
(* one of a pool of runtime timezones; the user switches the aggregation.  *)
(***************************************************************************)
Day(y, m, d) == [y |-> y, m |-> m, d |-> d]

TzUTC     == [base |-> 0, shift |-> 0, at |-> 0]
TzTokyo   == [base |-> 9, shift |-> 0, at |-> 0]
\* America/New_York: EST, daylight saving from 2025-03-09T07:00Z
TzNewYork == [base |-> -5, shift |-> 1, at |-> DateUTC(2025, 2, 9) + 7]
\* Europe/Berlin: CET, daylight saving from 2025-03-30T01:00Z
TzBerlin  == [base |-> 1, shift |-> 1, at |-> DateUTC(2025, 2, 30) + 1]

TimezonePool == {TzUTC, TzTokyo, TzNewYork, TzBerlin}

\* 2024-12-30 is a Monday, 2025-01-03 a Friday
QueryDates == {Day(2024, 12, 30), Day(2025, 1, 2), Day(2025, 1, 3),
               Day(2025, 2, 1), Day(2025, 2, 28), Day(2025, 3, 10), Day(2025, 3, 31)}

\* rows of pascal_daily_rankings as getPascalRankingData returns them
FactPool == {[date |-> Day(2024, 12, 30), rank |-> 3],
             [date |-> Day(2025, 1, 2),   rank |-> 45],
             [date |-> Day(2025, 1, 3),   rank |-> 8],
             [date |-> Day(2025, 2, 1),   rank |-> 12],
             [date |-> Day(2025, 2, 5),   rank |-> 7],
             [date |-> Day(2025, 2, 28),  rank |-> 2],
             [date |-> Day(2025, 3, 10),  rank |-> 101],
             [date |-> Day(2025, 3, 31),  rank |-> 20]}

\* the largest number of rows in data
MaxFacts == 2

RECURSIVE SeqOfSet(_)
\* the rows of S ordered by date, as the query's .order('date') returns them
SeqOfSet(S) ==
    IF S = {} THEN <<>>
    ELSE LET f == CHOOSE g \in S : \A h \in S : DateParse(g.date) <= DateParse(h.date)
         IN  <<f>> \o SeqOfSet(S \ {f})

DataPool == {SeqOfSet(S) : S \in {T \in SUBSET FactPool : Cardinality(T) <= MaxFacts}}

Aggregations == {"daily", "weekly", "monthly"}

NoParser == csvContent = << << <<>> >> >> /\ validation = <<>> /\ parsed = <<>>

InitChart ==
    /\ tz \in TimezonePool
    /\ data \in DataPool
    /\ \/ startDate = <<>> /\ endDate = <<>>
       \/ \E s \in QueryDates, e \in QueryDates : startDate = <<s>> /\ endDate = <<e>>
    /\ aggregation = "daily"
    /\ rendered = <<render(tz, data, startDate, endDate, "daily")>>
    /\ NoParser
    /\ NoStore
    /\ NoSecondImport
    /\ NoAuth
    /\ NoSink
    /\ NoDashboard

\* setAggregation(a) and the render it causes
SetAggregation(a) ==
    /\ a # aggregation
    /\ aggregation' = a
    /\ rendered' = <<render(tz, data, startDate, endDate, a)>>
    /\ UNCHANGED <<tz, data, startDate, endDate, parserVars, storeVars, imp, hist, ref, twoVars, auth, dash>>

NextChart == \E a \in Aggregations : SetAggregation(a)

SpecChart == InitChart /\ [][NextChart]_vars

(***************************************************************************)
(* Properties of the chart                                                 *)
(***************************************************************************)
\* the day number of a calendar date, and the calendar date of a day number
dayNumber(date) == MakeDay(date.y, date.m - 1, date.d)
calendarDate(n) == CivilFromDays(n)

\* the Monday on or before day number n (day 0, 1970-01-01, is a Thursday)
mondayOnOrBefore(n) == n - ((n + 3) % 7)

points == rendered[1].aggregatedData

rangeGiven == startDate # <<>> /\ endDate # <<>>

orderedRange == rangeGiven /\ dayNumber(startDate[1]) <= dayNumber(endDate[1])

\* C5: the daily series of a query with startDate <= endDate has exactly
\* daysBetween(startDate, endDate) + 1 points, the i-th of them dated
\* startDate + (i - 1) days: one per calendar date, ascending, no gap, no
\* repeated date, whatever dates have a fact.
C5_DailyDense ==
    (aggregation = "daily" /\ orderedRange) =>
        LET first == dayNumber(startDate[1])
            n     == dayNumber(endDate[1]) - first + 1
        IN  /\ Len(points) = n
            /\ \A i \in 1..Len(points) : points[i].date = calendarDate(first + i - 1)

\* C6: the weekly series of a query with startDate <= endDate is keyed by
\* the Monday on or before startDate and every 7th day after it up to
\* endDate, every key a Monday, and every fact is counted in the bucket of
\* the Monday on or before its own date, in every timezone.
C6_WeeklyMondays ==
    (aggregation = "weekly" /\ orderedRange) =>
        LET first == mondayOnOrBefore(dayNumber(startDate[1]))
            n     == ((dayNumber(endDate[1]) - first) \div 7) + 1
        IN  /\ Len(points) = n
            /\ \A i \in 1..Len(points) :
                  /\ points[i].date = calendarDate(first + 7 * (i - 1))
                  /\ points[i].dataPoints =
                        Cardinality({k \in 1..Len(data) :
                            calendarDate(mondayOnOrBefore(dayNumber(data[k].date)))
                                = points[i].date})

\* the months from (y1, m1) through (y2, m2), as first days
monthsBetween(a, b) == (b.y * 12 + b.m) - (a.y * 12 + a.m)

\* C7: the monthly series of a query with startDate <= endDate has one point
\* per month from startDate's month through endDate's month, keyed by the
\* first day of the month, ascending, and every fact is counted under the
\* first day of its own calendar month.
C7_MonthlyFirstDays ==
    (aggregation = "monthly" /\ orderedRange) =>
        LET s == startDate[1]
            n == monthsBetween(s, endDate[1]) + 1
        IN  /\ Len(points) = n
            /\ \A i \in 1..Len(points) :
                  /\ points[i].date = calendarDate(MakeDay(s.y, s.m - 1 + (i - 1), 1))
                  /\ points[i].dataPoints =
                        Cardinality({k \in 1..Len(data) :
                            [data[k].date EXCEPT !.d = 1] = points[i].date})

\* the ranks of the facts the chart puts in the bucket of point p
bucketRanks(p) ==
    {data[k].rank : k \in {j \in 1..Len(data) :
        IF aggregation = "daily" THEN data[j].date = p.date
        ELSE groupKey(tz, data[j], aggregation) = p.date}}

bucketSize(p) ==
    Cardinality({j \in 1..Len(data) :
        IF aggregation = "daily" THEN data[j].date = p.date
        ELSE groupKey(tz, data[j], aggregation) = p.date})

bucketSum(p) ==
    LET idx == {j \in 1..Len(data) :
                    IF aggregation = "daily" THEN data[j].date = p.date
                    ELSE groupKey(tz, data[j], aggregation) = p.date}
    IN  SumSeq([i \in 1..Len(data) |-> IF i \in idx THEN data[i].rank ELSE 0])

\* a is sum / n rounded to the nearest integer, halves up
isRoundedMean(a, sum, n) == 2 * n * a - n <= 2 * sum /\ 2 * sum < 2 * n * a + n

\* C8: a point whose bucket holds facts has avgRank, minRank, maxRank and
\* dataPoints computed from exactly the ranks of those facts and is not
\* marked out of range; the sentinel 101 with a null rank marks exactly the
\* points whose bucket holds no fact.
C8_SentinelNotASample ==
    \A i \in 1..Len(points) :
        LET p == points[i]
        IN  IF bucketSize(p) > 0
            THEN /\ p.dataPoints = bucketSize(p)
                 /\ isRoundedMean(p.avgRank, bucketSum(p), bucketSize(p))
                 /\ p.minRank = MinOf(bucketRanks(p))
                 /\ p.maxRank = MaxOf(bucketRanks(p))
                 /\ p.rank = <<p.avgRank>>
                 /\ ~p.isOutOfRange
            ELSE /\ p.isOutOfRange
                 /\ p.rank = <<>>
                 /\ p.dataPoints = 0
                 /\ p.avgRank = 101 /\ p.minRank = 101 /\ p.maxRank = 101

\* C8 witness: a weekly series with a bucket of two facts and a
\* bucket that holds none, which carries the sentinel
C8_Witness ==
    /\ aggregation = "weekly"
    /\ \E i \in 1..Len(points) : points[i].dataPoints = 2 /\ points[i].minRank < points[i].avgRank
    /\ \E i \in 1..Len(points) : points[i].isOutOfRange

genuinePoints == {i \in 1..Len(points) : ~points[i].isOutOfRange}

\* the query of the example: ranks 3 and 45 and two days without a fact
C9_Example ==
    /\ aggregation = "daily"
    /\ data = <<[date |-> Day(2024, 12, 30), rank |-> 3],
                [date |-> Day(2025, 1, 2), rank |-> 45]>>
    /\ startDate = <<Day(2024, 12, 30)>>
    /\ endDate = <<Day(2025, 1, 2)>>

\* C9: for a series with points, the axis range is [1, m + 5] with m the
\* largest rank among the points that are not out of range, and [1, 100]
\* when every point is out of range; ranks 3 and 45 with two gap days give
\* the upper bound 50.
C9_AxisBound ==
    /\ Len(points) > 0 =>
          /\ rendered[1].yAxisDomain.lo = 1
          /\ rendered[1].yAxisDomain.hi =
                IF genuinePoints = {} THEN <<100>>
                ELSE <<MaxOf({points[i].rank[1] : i \in genuinePoints}) + 5>>
    /\ C9_Example => rendered[1].yAxisDomain.hi = <<50>>

\* C9 witness: the example, a series with two points out of range and two
\* with a rank, has been rendered with the upper bound 50
C9_Witness ==
    /\ C9_Example
    /\ Len(points) = 4
    /\ Cardinality(genuinePoints) = 2
    /\ rendered[1].yAxisDomain.hi = <<50>>

\* every fact of data is dated within [startDate, endDate]
factsWithinRange ==
    \A k \in 1..Len(data) :
        /\ dayNumber(startDate[1]) <= dayNumber(data[k].date)
        /\ dayNumber(data[k].date) <= dayNumber(endDate[1])

\* the sum of dataPoints over the points of the series
countedFacts == SumSeq([i \in 1..Len(points) |-> points[i].dataPoints])

\* the facts whose group key is the key of no generated period
uncountedFacts ==
    {k \in 1..Len(data) :
        \A i \in 1..Len(points) : groupKey(tz, data[k], aggregation) # points[i].date}

\* C27: for weekly and monthly aggregation with startDate <= endDate and
\* every fact dated within [startDate, endDate], the sum of dataPoints over
\* the output points equals the number of facts, and no fact has a group
\* key that is missing from the generated period sequence.
C27_EveryFactCounted ==
    (aggregation # "daily" /\ orderedRange /\ factsWithinRange) =>
        /\ countedFacts = Len(data)
        /\ uncountedFacts = {}

\* C27, the part that holds: in a timezone without a daylight-saving
\* shift every fact within the range is counted in exactly one period.
C27_EveryFactCountedWithoutShift ==
    (aggregation # "daily" /\ orderedRange /\ factsWithinRange /\ tz.shift = 0) =>
        /\ countedFacts = Len(data)
        /\ uncountedFacts = {}

\* C28: in every point of every granularity isOutOfRange is true exactly
\* when rank is null and exactly when dataPoints is 0, and a point with
\* dataPoints > 0 has minRank <= avgRank <= maxRank and rank = avgRank.
C28_PointConsistent ==
    \A i \in 1..Len(points) :
        /\ points[i].isOutOfRange <=> (points[i].rank = <<>>)
        /\ points[i].isOutOfRange <=> (points[i].dataPoints = 0)
        /\ points[i].dataPoints > 0 =>
              /\ points[i].minRank <= points[i].avgRank
              /\ points[i].avgRank <= points[i].maxRank
              /\ points[i].rank = <<points[i].avgRank>>

\* C28 witness: a monthly series with a point of two facts whose average
\* lies strictly between its minimum and maximum, and a point without a fact
C28_Witness ==
    /\ aggregation = "monthly"
    /\ \E i \in 1..Len(points) :
          /\ points[i].dataPoints = 2
          /\ points[i].minRank < points[i].avgRank
          /\ points[i].avgRank < points[i].maxRank
    /\ \E i \in 1..Len(points) : points[i].dataPoints = 0 /\ points[i].rank = <<>>

(***************************************************************************)
(* Imports: importPascalCsv called on a file of a bounded pool, against a  *)
(* store that is empty or holds an earlier import; every persistence call  *)
(* may succeed or fail; a finished import may be followed by another of    *)
(* the same file.                                                          *)
(***************************************************************************)
c_Jan3sl == <<"2","0","2","5","/","1","/","3">>

\* "Pascal ID,キーワード,2025年1月1日,2025年1月2日,2025/1/3"
HeaderThreeDays == <<c_PascalID, c_Keyword, c_Jan1jp, c_Jan2jp, c_Jan3sl>>

Row7 == << <<"7">>, c_foo, <<"5">>, <<"-">>, <<"6">> >>
Row7again == << <<"7">>, c_baz, <<"9">>, <<"4">>, <<>> >>
Row8 == << <<"8">>, c_bar, <<"1">>, <<"1","2">>, <<"3">> >>
Row9 == << <<"9">>, c_qux, <<"0">>, <<"-","3">>, <<"a","b","c">> >>
RowX == << <<"x">>, c_foo, <<"5">>, <<"3">>, <<"1">> >>

FileThreeKeywords == <<HeaderThreeDays, Row7, Row8, Row9>>
FileSameIdTwice   == <<HeaderThreeDays, Row7, Row7again>>
FileEmpty         == << << <<>> >> >>
FileHeaderOnly    == <<HeaderThreeDays>>
FileHeaderID      == <<HeaderID, Row7foo>>
FileNoKeyword     == << <<c_PascalID, c_Jan1jp>>, Row7foo >>
FileNoDates       == << <<c_PascalID, c_Keyword>>, Row7foo >>
FileOneCellHeader == << <<c_IdAndKeyword, c_Jan1sl>>, Row7foo >>
FileNoEntity      == <<HeaderThreeDays, RowX>>
\* "Pascal ID,キーワード,2025年1月1日,2025/1/1" and "7,foo,5,6"
FileSameDateTwice == << <<c_PascalID, c_Keyword, c_Jan1jp, c_Jan1sl>>,
                        << <<"7">>, c_foo, <<"5">>, <<"6">> >> >>

ImportFiles == {FileThreeKeywords, FileSameIdTwice, FileEmpty, FileHeaderOnly,
                FileHeaderID, FileNoKeyword, FileNoDates, FileOneCellHeader,
                FileSameDateTwice,
                FileNoEntity}

\* a store an earlier import left: keyword 7 with two rankings
EarlierKeywords ==
    {[id |-> 1, pascal_id |-> 7, keyword_text |-> c_bar, monthly_search_volume |-> <<>>,
      domain_url |-> <<>>, site_name |-> <<>>, rank_type |-> <<>>, area |-> <<>>,
      device_type |-> <<>>, landing_page |-> <<>>]}

EarlierRankings ==
    {[pascal_keyword_id |-> 1, date |-> Day(2024, 12, 31), rank |-> <<4>>],
     [pascal_keyword_id |-> 1, date |-> Day(2025, 1, 1), rank |-> <<9>>]}

\* the largest number of imports run one after the other
MaxRuns == 2

Init ==
    /\ csvContent = FileEmpty
    /\ validation = <<>>
    /\ parsed = <<>>
    /\ NoChart
    /\ \/ pascal_keywords = {} /\ pascal_daily_rankings = {} /\ nextUuid = 1
       \/ /\ pascal_keywords = EarlierKeywords
          /\ pascal_daily_rankings = EarlierRankings
          /\ nextUuid = 2
    /\ imp = IdleImport
    /\ hist = NoHistory
    /\ NoSecondImport
    /\ NoAuth
    /\ NoSink
    /\ NoDashboard

\* hist after a step that leaves the import in state st and the tables as kw, rk
recorded(content, st, kw, rk) ==
    IF st.pc = "done"
    THEN [hist EXCEPT !.ends = Append(hist.ends,
            [content |-> content, result |-> st.result, calls |-> st.calls,
             before |-> IF imp.pc = "keywords" \/ imp.pc = "rankings"
                        THEN hist.before[1]
                        ELSE [keywords |-> pascal_keywords, rankings |-> pascal_daily_rankings],
             keywords |-> kw, rankings |-> rk,
             keywordIdMap |-> st.keywordIdMap, failedCalls |-> st.failedCalls])]
    ELSE hist

\* a finished import none of whose persistence calls failed
noFailure(e) ==
    \A n \in 1..Len(e.result.errors) : e.result.errors[n].kind \notin {"keyword", "rankings"}

\* the store fails persistence calls in at most one import of a history
mayFail == \A n \in 1..Len(hist.ends) : noFailure(hist.ends[n])

\* importPascalCsv(content) is called; a later import is of the same file
StartImport(content) ==
    /\ imp.pc \in {"idle", "done"}
    /\ hist.runs < MaxRuns
    /\ hist.runs > 0 => content = csvContent
    /\ csvContent' = content
    /\ validation' = <<validatePascalCsv(content)>>
    /\ parsed' = IF validatePascalCsv(content).isValid
                 THEN <<parsePascalCsv(content)>> ELSE <<>>
    /\ imp' = startImport(content)
    /\ hist' = [recorded(content, imp', pascal_keywords, pascal_daily_rankings)
                    EXCEPT !.runs = hist.runs + 1,
                           !.before = <<[keywords |-> pascal_keywords,
                                          rankings |-> pascal_daily_rankings]>>]
    /\ ref' = imp'
    /\ UNCHANGED <<chartVars, storeVars, twoVars, auth, dash>>

\* the upsert of keyword number k of the batch succeeds
KeywordUpsertSucceeds(k) ==
    /\ imp.pc = "keywords"
    /\ k \in imp.outstanding
    /\ pascal_keywords' = upsertKeyword(pascal_keywords, parsed[1].keywords[k], nextUuid)
    /\ nextUuid' = IF upsertedId(pascal_keywords, parsed[1].keywords[k], nextUuid) = nextUuid
                   THEN nextUuid + 1 ELSE nextUuid
    /\ imp' = keywordSucceeded(imp, parsed[1], k,
                               upsertedId(pascal_keywords, parsed[1].keywords[k], nextUuid))
    /\ hist' = recorded(csvContent, imp', pascal_keywords', pascal_daily_rankings)
    /\ ref' = keywordSucceeded(ref, parsed[1], k,
                               upsertedId(pascal_keywords, parsed[1].keywords[k], nextUuid))
    /\ committed' = keywordCommitted(committed, parsed[1].keywords[k])
    /\ UNCHANGED <<csvContent, validation, parsed, chartVars, pascal_daily_rankings,
                   imp2, parsed2, auth, dash>>

\* the upsert of keyword number k of the batch fails
KeywordUpsertFails(k) ==
    /\ mayFail
    /\ imp.pc = "keywords"
    /\ k \in imp.outstanding
    /\ imp' = keywordFailed(imp, parsed[1], k)
    /\ ref' = keywordFailed(ref, parsed[1], k)
    /\ hist' = recorded(csvContent, imp', pascal_keywords, pascal_daily_rankings)
    /\ UNCHANGED <<csvContent, validation, parsed, chartVars, storeVars, twoVars, auth, dash>>

\* the bulk upsert that is outstanding succeeds
BulkUpsertSucceeds ==
    /\ imp.pc = "rankings"
    /\ imp.request # <<>>
    /\ conflictFree(imp.request[1])
    /\ pascal_daily_rankings' = bulkUpsertRankings(pascal_daily_rankings, imp.request[1])
    /\ imp' = bulkSucceeded(imp, parsed[1])
    /\ ref' = bulkSucceeded(ref, parsed[1])
    /\ hist' = recorded(csvContent, imp', pascal_keywords, pascal_daily_rankings')
    /\ committed' = rankingsCommitted(committed, imp.request[1])
    /\ UNCHANGED <<csvContent, validation, parsed, chartVars, pascal_keywords, nextUuid,
                   imp2, parsed2, auth, dash>>

\* the bulk upsert that is outstanding fails
BulkUpsertFails ==
    /\ mayFail
    /\ imp.pc = "rankings"
    /\ imp.request # <<>>
    /\ imp' = bulkFailed(imp, parsed[1])
    /\ ref' = bulkFailed(ref, parsed[1])
    /\ hist' = recorded(csvContent, imp', pascal_keywords, pascal_daily_rankings)
    /\ UNCHANGED <<csvContent, validation, parsed, chartVars, storeVars, twoVars, auth, dash>>

Next ==
    \/ \E content \in ImportFiles : StartImport(content)
    \/ \E k \in 1..MaxRows + 1 : KeywordUpsertSucceeds(k)
    \/ \E k \in 1..MaxRows + 1 : KeywordUpsertFails(k)
    \/ BulkUpsertSucceeds
    \/ BulkUpsertFails

Spec == Init /\ [][Next]_vars

(***************************************************************************)
(* Properties of the import                                                *)
(***************************************************************************)
\* the last two imports finished, both without a failure
twoCleanRuns ==
    /\ Len(hist.ends) >= 2
    /\ noFailure(hist.ends[Len(hist.ends) - 1])
    /\ noFailure(hist.ends[Len(hist.ends)])

firstRun == hist.ends[Len(hist.ends) - 1]
secondRun == hist.ends[Len(hist.ends)]

naturalKeys(table) == {row.pascal_id : row \in table}

\* the keywords given all have different pascal_id
distinctKeys(keywords) ==
    \A a, b \in 1..Len(keywords) :
        a # b => keywords[a].pascal_id # keywords[b].pascal_id

\* the files in which no pascal_id occurs in two rows that give a keyword
DistinctKeyFiles == {f \in ImportFiles : distinctKeys(parsePascalCsv(f).keywords)}

C1_ReimportIdempotent ==
    twoCleanRuns =>
        /\ Cardinality(secondRun.keywords) = Cardinality(firstRun.keywords)
        /\ {<<row.id, row.pascal_id>> : row \in secondRun.keywords}
              = {<<row.id, row.pascal_id>> : row \in firstRun.keywords}
        /\ Cardinality(naturalKeys(secondRun.keywords)) = Cardinality(secondRun.keywords)
        /\ secondRun.rankings = firstRun.rankings
        /\ \A r1, r2 \in secondRun.rankings :
              (r1.pascal_keyword_id = r2.pascal_keyword_id /\ r1.date = r2.date) => r1 = r2
        /\ secondRun.content \in DistinctKeyFiles =>
              secondRun.keywords = firstRun.keywords

\* C1: two imports of the three-keyword file into the store an earlier
\* import left have finished, both without a failure: keywords were added
\* and rankings written
C1_Witness ==
    /\ twoCleanRuns
    /\ secondRun.content = FileThreeKeywords
    /\ firstRun.before.keywords = EarlierKeywords
    /\ Cardinality(firstRun.keywords) = 3
    /\ secondRun.result.importedRankings = 5
    /\ secondRun.calls = 6

\* a cell that is a positive integer: it starts with a digit and its run of
\* digits is not all zeros
positiveCell(c) ==
    /\ c # <<>>
    /\ IsDigit(c[1])
    /\ \E i \in 1..Len(DigitPrefix(c)) : c[i] # "0"

\* the number of date cells of the rows that give a keyword that are
\* positive integers
positiveCells(lines, cm, dcs) ==
    Cardinality({<<i, k>> \in (2..Len(lines)) \X (1..Len(dcs)) :
        /\ cm["pascal_id"] # 0 /\ cm["keyword"] # 0
        /\ rowIsKeyword(trimCells(lines[i]), cm)
        /\ dcs[k].index <= Len(lines[i])
        /\ positiveCell(trim(lines[i][dcs[k].index]))})

positiveCellsOf(lines) ==
    positiveCells(lines, columnMap(trimCells(lines[1])), dateColumns(trimCells(lines[1])))

\* every file of the pool with its count
PositiveCellsIn == {<<f, positiveCellsOf(trimSplitLines(f))>> : f \in ImportFiles}

hasRank(r) == r.rank # <<>> /\ r.rank[1] \in Nat /\ r.rank[1] > 0

\* C2: every ranking parsePascalCsv returns, every ranking of a bulk upsert
\* request and every row of pascal_daily_rankings has a rank that is present
\* and a positive integer; the rankings parsed are as many as the date cells
\* that are positive integers, so an empty cell, "-", "0", a negative number
\* or text that is no number gives none.
C2_PositiveRanks ==
    /\ parsed # <<>> =>
          /\ \A n \in 1..Len(parsed[1].rankings) : hasRank(parsed[1].rankings[n])
          /\ parsed[1].threw = <<>> =>
                <<csvContent, Len(parsed[1].rankings)>> \in PositiveCellsIn
    /\ imp.request # <<>> =>
          \A n \in 1..Len(imp.request[1]) : hasRank(imp.request[1][n])
    /\ \A row \in pascal_daily_rankings : hasRank(row)

\* C2 witness: the file with the cells "-", "0", "-3" and "abc" is parsed
\* into 5 rankings and a bulk upsert of two of them is outstanding
C2_Witness ==
    /\ csvContent = FileThreeKeywords
    /\ parsed # <<>>
    /\ Len(parsed[1].rankings) = 5
    /\ imp.request # <<>>
    /\ Len(imp.request[1]) = 2

\* the label of the identifier column, as the validation and the parser
\* look for it
IdentifierLabel == <<"P","a","s","c","a","l"," ","I","D">>
KeywordLabel == <<"U+30AD","U+30FC","U+30EF","U+30FC","U+30C9">>

\* the header row has a cell with the identifier label and another cell
\* with the keyword label (キーワード or keyword)
hasRequiredColumns(headers) ==
    \E i, j \in 1..Len(headers) :
        /\ i # j
        /\ includes(headers[i], IdentifierLabel)
              \/ includes(headers[i], toLowerCase(IdentifierLabel))
        /\ includes(headers[j], KeywordLabel)
              \/ includes(toLowerCase(headers[j]), <<"k","e","y","w","o","r","d">>)
        /\ ~includes(headers[j], IdentifierLabel)
        /\ ~includes(headers[j], toLowerCase(IdentifierLabel))

\* the cases of C10: no data row, no identifier or keyword column, no date
\* column, no keyword parsed
abortCase(content) ==
    \/ Len(trimSplitLines(content)) < 2
    \/ ~hasRequiredColumns(trimCells(trimSplitLines(content)[1]))
    \/ dateColumns(trimCells(trimSplitLines(content)[1])) = <<>>
    \/ parsePascalCsv(content).keywords = <<>>

AbortFiles == {f \in ImportFiles : abortCase(f)}

\* C10: an import of a file without a data row, without the identifier or
\* the keyword column, without a date column or without a keyword among its
\* rows has returned at once, unsuccessful and with an error, has issued no
\* keyword upsert and no bulk upsert, and the tables are as before it.
C10_AbortBeforePersistence ==
    (hist.runs > 0 /\ csvContent \in AbortFiles) =>
        /\ imp.pc = "done"
        /\ imp.calls = 0
        /\ ~imp.result.success /\ imp.result.errors # <<>>
        /\ imp.result.importedKeywords = 0 /\ imp.result.importedRankings = 0
        /\ pascal_keywords = hist.before[1].keywords
        /\ pascal_daily_rankings = hist.before[1].rankings
        /\ hist.ends[Len(hist.ends)].calls = 0
        /\ hist.ends[Len(hist.ends)].keywords = hist.ends[Len(hist.ends)].before.keywords
        /\ hist.ends[Len(hist.ends)].rankings = hist.ends[Len(hist.ends)].before.rankings

\* C10 witness: the file whose header cell holds both labels passes the
\* validation and parsePascalCsv throws; the store held an earlier import
C10_Witness ==
    /\ hist.runs > 0
    /\ csvContent = FileOneCellHeader
    /\ validation # <<>> /\ validation[1].isValid
    /\ parsed # <<>> /\ parsed[1].threw # <<>>
    /\ imp.pc = "done"
    /\ pascal_keywords = EarlierKeywords

\* the import is in one of the cases of C10
aborted == hist.runs > 0 /\ csvContent \in AbortFiles

successIsNoErrors(result) == result.success <=> result.errors = <<>>

\* C12: in every result importPascalCsv has returned, success is true
\* exactly when the error list is empty; a run in which some persistence
\* calls succeeded and some failed returns imported counts above zero, an
\* error for every failed call, and success = false.
C12_SuccessIffNoErrors ==
    /\ imp.pc = "done" => successIsNoErrors(imp.result)
    /\ \A n \in 1..Len(hist.ends) : successIsNoErrors(hist.ends[n].result)
    /\ (imp.pc = "done" /\ imp.okCalls > 0 /\ imp.failedCalls > 0) =>
          /\ imp.result.importedKeywords > 0
          /\ imp.result.importedKeywords = Cardinality(imp.okRows)
          /\ Len(imp.result.errors) >= imp.failedCalls
          /\ ~imp.result.success

\* C12 witness: of the three keywords of the file two were upserted and one
\* failed, rankings were written, and the import has returned
C12_Witness ==
    /\ csvContent = FileThreeKeywords
    /\ imp.pc = "done"
    /\ Cardinality(imp.okRows) = 2 /\ Cardinality(imp.failedRows) = 1
    /\ imp.result.importedKeywords = 2 /\ imp.result.importedRankings > 0
    /\ ~imp.result.success

\* an import that sent upserts has returned and none of its calls failed
finishedClean ==
    /\ imp.pc = "done" /\ imp.calls > 0 /\ imp.failedCalls = 0
    /\ parsed # <<>> /\ parsed[1].threw = <<>>

\* keyword number k is the last row of the file with its pascal_id
lastOfItsKey(keywords, k) ==
    \A k2 \in (k + 1)..Len(keywords) : keywords[k2].pascal_id # keywords[k].pascal_id

\* C13: when two rows of one import have the same pascal_id, both are
\* upserted, and once the import has finished the row of pascal_keywords
\* for that pascal_id has the keyword_text of the later of the two rows,
\* also when both are in the same batch.
C13_LaterRowWins ==
    finishedClean =>
        /\ imp.okRows = 1..Len(parsed[1].keywords)
        /\ \A k \in 1..Len(parsed[1].keywords) :
              lastOfItsKey(parsed[1].keywords, k) =>
                  \E row \in pascal_keywords :
                      /\ row.pascal_id = parsed[1].keywords[k].pascal_id
                      /\ row.keyword_text = parsed[1].keywords[k].keyword_text

\* A store without its surrogate ids (uuid_generate_v4 gives them): the
\* keyword rows without id, the rankings under the pascal_id of their keyword
withoutId(row) == [c \in DOMAIN row \ {"id"} |-> row[c]]

pascalIdOf(kw, id) == (CHOOSE row \in kw : row.id = id).pascal_id

storeView(kw, rk) ==
    [keywords |-> {withoutId(row) : row \in kw},
     rankings |-> {[pascal_id |-> pascalIdOf(kw, r.pascal_keyword_id),
                    date |-> r.date, rank |-> r.rank] : r \in rk}]

\* an id no row of the table has
freshId(table) == MaxOf({0} \cup {row.id : row \in table}) + 1

RECURSIVE afterUpserts(_, _, _)
\* the tables the upserts of the keywords rows can leave, in any order
afterUpserts(tables, keywords, rows) ==
    IF rows = {} THEN tables
    ELSE UNION {afterUpserts({upsertKeyword(t, keywords[k], freshId(t)) : t \in tables},
                             keywords, rows \ {k}) : k \in rows}

RECURSIVE afterBatches(_, _, _)
\* the tables the batches from offset i on can leave, one batch after the other
afterBatches(tables, csvData, i) ==
    IF i >= Len(csvData.keywords) THEN tables
    ELSE afterBatches(afterUpserts(tables, csvData.keywords, keywordBatch(csvData, i)),
                      csvData, i + KEYWORD_BATCH_SIZE)

\* the rankings of the file under the ids of the keyword table kw
rankingsUnder(rankings, kw) ==
    [n \in 1..Len(rankings) |->
        [pascal_keyword_id |-> (CHOOSE row \in kw : row.pascal_id = rankings[n].pascal_id).id,
         date |-> rankings[n].date, rank |-> rankings[n].rank]]

\* the stores one import of csvData without a failure can leave from (kw, rk)
cleanOutcomes(kw, rk, csvData) ==
    {storeView(t, bulkUpsertRankings(rk, rankingsUnder(csvData.rankings, t))) :
        t \in afterBatches({kw}, csvData, 0)}

\* import number n of the history had failed calls, import n + 1 had none
recoveredAt(n) ==
    /\ hist.ends[n].failedCalls > 0
    /\ hist.ends[n + 1].failedCalls = 0

\* C14: when an import with failed persistence calls is followed by an
\* import of the same file without one, the store is one that a single
\* import of the file without a failure leaves from the store the failed
\* import started from; and what the failed import had committed is in the
\* store when it returns: every keyword it got an id for is there.
C14_RecoveryByRerun ==
    \A n \in 1..(Len(hist.ends) - 1) :
        recoveredAt(n) =>
            /\ storeView(hist.ends[n + 1].keywords, hist.ends[n + 1].rankings)
                  \in cleanOutcomes(hist.ends[n].before.keywords,
                                    hist.ends[n].before.rankings, parsed[1])
            /\ \A pid \in DOMAIN hist.ends[n].keywordIdMap :
                  \E row \in hist.ends[n].keywords :
                      row.pascal_id = pid /\ row.id = hist.ends[n].keywordIdMap[pid]

\* C14 witness: an import of the three-keyword file in which calls failed
\* and calls succeeded was followed by one without a failure, which changed
\* the store
C14_Witness ==
    /\ Len(hist.ends) = 2
    /\ recoveredAt(1)
    /\ csvContent = FileThreeKeywords
    /\ hist.ends[1].keywordIdMap # <<>>
    /\ hist.ends[1].rankings # hist.ends[2].rankings
    /\ hist.ends[1].keywords # hist.ends[2].keywords

\* the natural keys with their surrogate ids, and the keys of the rankings
keywordKeys(kw) == {<<row.id, row.pascal_id>> : row \in kw}

rankingPairs(rk) == {<<r.pascal_keyword_id, r.date>> : r \in rk}

\* the dates of the columns of the file that was imported
datesOfFile == IF parsed = <<>> THEN {}
               ELSE {parsed[1].rankings[n].date : n \in 1..Len(parsed[1].rankings)}

\* from the tables kw0, rk0 to the tables kw, rk nothing was deleted
nothingDeleted(kw0, rk0, kw, rk) ==
    /\ keywordKeys(kw0) \subseteq keywordKeys(kw)
    /\ rankingPairs(rk0) \subseteq rankingPairs(rk)

\* C16: at every point of an import, and after it, every keyword and every
\* pair of keyword and date the store held when the import started is still
\* in the store, and so is, unchanged, every ranking of a date that is not a
\* column of the file; what a finished import left is not deleted later.
C16_Additive ==
    /\ hist.runs > 0 =>
        /\ nothingDeleted(hist.before[1].keywords, hist.before[1].rankings,
                          pascal_keywords, pascal_daily_rankings)
        /\ \A r \in hist.before[1].rankings :
                r.date \notin datesOfFile => r \in pascal_daily_rankings
    /\ \A n \in 1..Len(hist.ends) :
        /\ nothingDeleted(hist.ends[n].before.keywords, hist.ends[n].before.rankings,
                          hist.ends[n].keywords, hist.ends[n].rankings)
        /\ nothingDeleted(hist.ends[n].keywords, hist.ends[n].rankings,
                          pascal_keywords, pascal_daily_rankings)

\* an import over a store that held rankings of 2024-12-31 and 2025-01-01 for
\* key 7 is over: the file has no column of 2024-12-31 and that ranking is
\* as it was, the one of 2025-01-01 was overwritten and rankings were added
C16_Witness ==
    /\ imp.pc = "done"
    /\ imp.result.importedRankings > 0
    /\ hist.before[1].rankings = EarlierRankings
    /\ Day(2024, 12, 31) \notin datesOfFile
    /\ [pascal_keyword_id |-> 1, date |-> Day(2024, 12, 31), rank |-> <<4>>]
            \in pascal_daily_rankings
    /\ [pascal_keyword_id |-> 1, date |-> Day(2025, 1, 1), rank |-> <<5>>]
            \in pascal_daily_rankings
    /\ Cardinality(pascal_daily_rankings) > Cardinality(EarlierRankings)

\* the keyword upserts that have settled, and those that were issued
settledRows == imp.okRows \cup imp.failedRows

issuedRows == settledRows \cup imp.outstanding

\* C18: while the keyword loop runs, the upserts outstanding are members of
\* the batch at the current offset, at most KEYWORD_BATCH_SIZE of them, every
\* member of an earlier batch has settled, and every member of the current
\* batch was issued; an upsert settles once, as a success or as a failure,
\* and when the loop is over every keyword of the file has settled, whatever
\* failed.
C18_KeywordBatchesInTurn ==
    /\ imp.okRows \cap imp.failedRows = {}
    /\ imp.outstanding \cap settledRows = {}
    /\ Cardinality(imp.outstanding) <= KEYWORD_BATCH_SIZE
    /\ imp.pc # "keywords" => imp.outstanding = {}
    /\ imp.pc = "keywords" =>
        /\ imp.outstanding # {}
        /\ imp.outstanding \subseteq keywordBatch(parsed[1], imp.i)
        /\ 1..imp.i \subseteq settledRows
        /\ issuedRows = 1..Min2(imp.i + KEYWORD_BATCH_SIZE, Len(parsed[1].keywords))
    /\ (imp.pc \in {"rankings", "done"} /\ parsed # <<>> /\ csvContent \notin AbortFiles) =>
        settledRows = 1..Len(parsed[1].keywords)

\* the second batch is outstanding after a first batch of which one upsert
\* failed and the other succeeded
C18_Witness ==
    /\ imp.pc = "keywords"
    /\ imp.i = KEYWORD_BATCH_SIZE
    /\ imp.outstanding # {}
    /\ imp.failedRows # {} /\ imp.okRows # {}
    /\ settledRows = 1..KEYWORD_BATCH_SIZE

\* the natural keys of the rows whose upsert failed, of those whose upsert
\* succeeded, and the keys none of whose upserts succeeded
failedKeys == {parsed[1].keywords[k].pascal_id : k \in imp.failedRows}

succeededKeys == {parsed[1].keywords[k].pascal_id : k \in imp.okRows}

lostKeys == failedKeys \ succeededKeys

\* the rankings the table rk holds for the keyword rows of kw with this key
rankingsOfKey(kw, rk, pascalId) ==
    {r \in rk : \E row \in kw : row.pascal_id = pascalId /\ row.id = r.pascal_keyword_id}

\* the errors of the import hold one of this kind for the key
reported(kind, pascalId, message) ==
    \E n \in 1..Len(imp.result.errors) :
        imp.result.errors[n] = ImportError(kind, pascalId, message)

\* once the keyword loop is over: the key has no id in keywordIdMap, the
\* request outstanding is not for it, the store holds for it the rankings
\* it held when the import started, and at the end its rankings are reported
\* as skipped
dropped(pascalId) ==
    /\ pascalId \notin DOMAIN imp.keywordIdMap
    /\ imp.request # <<>> => rankingKeys(parsed[1])[imp.key] # pascalId
    /\ rankingsOfKey(pascal_keywords, pascal_daily_rankings, pascalId)
            = rankingsOfKey(hist.before[1].keywords, hist.before[1].rankings, pascalId)
    /\ (imp.pc = "done" /\ \E n \in 1..Len(rankingKeys(parsed[1])) :
                                rankingKeys(parsed[1])[n] = pascalId)
            => reported("rankings", pascalId, "Keyword not found, skipping rankings")

\* the import is never left by a thrown error and ends with Finalize
reachesFinalize ==
    /\ imp.pc # "threw"
    /\ (imp.pc = "done" /\ imp.failedRows # {}) =>
            imp.progress[Len(imp.progress)] = 10

\* C19 as stated: every key with a failed keyword upsert has the failure in
\* the errors and, once the keyword loop is over, is dropped, and the import
\* ends with Finalize.
C19_FailedKeyDropped ==
    /\ reachesFinalize
    /\ \A p \in failedKeys :
        /\ reported("keyword", p, "Failed to import keyword")
        /\ imp.pc \in {"rankings", "done"} => dropped(p)

\* C19: every key with a failed keyword upsert has the failure in the
\* errors, every key none of whose keyword upserts succeeded is dropped once
\* the keyword loop is over, and the import ends with Finalize.
C19_KeyWithoutSuccessDropped ==
    /\ reachesFinalize
    /\ \A p \in failedKeys : reported("keyword", p, "Failed to import keyword")
    /\ imp.pc \in {"rankings", "done"} => \A p \in lostKeys : dropped(p)

\* an import over a store that held key 7 with rankings is over: the upsert
\* of key 7 failed, the rankings of another key were imported
C19_Witness ==
    /\ imp.pc = "done"
    /\ 7 \in lostKeys
    /\ succeededKeys # {}
    /\ imp.result.importedRankings > 0
    /\ hist.before[1].rankings = EarlierRankings

\* the persistence calls that were issued and have not settled
unsettledCalls == imp.calls - imp.okCalls - imp.failedCalls

\* the rankings of the file for this key, as <<date, rank>>
fileRankingsOf(pascalId) ==
    {<<parsed[1].rankings[n].date, parsed[1].rankings[n].rank>> :
        n \in {m \in 1..Len(parsed[1].rankings) : parsed[1].rankings[m].pascal_id = pascalId}}

\* C20: the calls issued and not settled are the keyword upserts
\* outstanding and at most one bulk upsert of rankings; a bulk upsert is
\* outstanding only when every keyword upsert of the file has settled; its
\* batch holds between 1 and RANKING_BATCH_SIZE rankings, all of them
\* rankings of the file for one key, under the id the keyword upsert of that
\* key returned.
C20_RankingBatchesInTurn ==
    /\ unsettledCalls = Cardinality(imp.outstanding) + Len(imp.request)
    /\ Len(imp.request) <= 1
    /\ imp.request # <<>> =>
        /\ imp.pc = "rankings"
        /\ imp.outstanding = {}
        /\ settledRows = 1..Len(parsed[1].keywords)
        /\ Len(imp.request[1]) \in 1..RANKING_BATCH_SIZE
        /\ imp.key \in 1..Len(rankingKeys(parsed[1]))
        /\ rankingKeys(parsed[1])[imp.key] \in DOMAIN imp.keywordIdMap
        /\ \A n \in 1..Len(imp.request[1]) :
            /\ imp.request[1][n].pascal_keyword_id
                    = imp.keywordIdMap[rankingKeys(parsed[1])[imp.key]]
            /\ <<imp.request[1][n].date, imp.request[1][n].rank>>
                    \in fileRankingsOf(rankingKeys(parsed[1])[imp.key])

\* the second batch of the rankings of the second key of the file is
\* outstanding
C20_Witness ==
    /\ imp.pc = "rankings"
    /\ imp.request # <<>>
    /\ imp.key > 1
    /\ imp.j = RANKING_BATCH_SIZE
    /\ imp.okCalls > Cardinality(imp.okRows)

\* the bulk upserts importPascalCsv has issued
bulkIssued == imp.calls - Cardinality(issuedRows)

\* the batches the rankings of one key make
batchesOf(csvData, pascalId) ==
    (Len(rankingsOf(csvData, pascalId)) + RANKING_BATCH_SIZE - 1) \div RANKING_BATCH_SIZE

RECURSIVE batchesOfKeys(_, _, _)
\* the batches of the keys of the list that have an id in the mapping; with
\* whole = FALSE only the first batch of each key is counted
batchesOfKeys(csvData, keys, whole) ==
    IF keys = <<>> THEN 0
    ELSE (IF Head(keys) \in DOMAIN imp.keywordIdMap
          THEN (IF whole THEN batchesOf(csvData, Head(keys)) ELSE 1)
          ELSE 0)
         + batchesOfKeys(csvData, Tail(keys), whole)

\* the import went through its stages to the end
finalized == imp.pc = "done" /\ imp.progress[Len(imp.progress)] = 10

\* the errors of failed bulk upserts
rankingFailures ==
    {n \in 1..Len(imp.result.errors) :
        imp.result.errors[n].message = "Failed to import rankings"}

\* C21: when the import ends, every failed bulk upsert has its error in the
\* list, and every batch of the rankings of every key with an id was
\* attempted, whichever bulk upserts failed.
C21_EveryBatchAttempted ==
    finalized =>
        /\ Cardinality(rankingFailures) = imp.failedCalls - Cardinality(imp.failedRows)
        /\ bulkIssued = batchesOfKeys(parsed[1], rankingKeys(parsed[1]), TRUE)

\* C21, the part that holds: when the import ends, every failed bulk upsert
\* has its error in the list and the first batch of every key with an id was
\* attempted, whichever bulk upserts failed before.
C21_EveryKeyAttempted ==
    finalized =>
        /\ Cardinality(rankingFailures) = imp.failedCalls - Cardinality(imp.failedRows)
        /\ bulkIssued >= batchesOfKeys(parsed[1], rankingKeys(parsed[1]), FALSE)
        /\ bulkIssued <= batchesOfKeys(parsed[1], rankingKeys(parsed[1]), TRUE)

\* C22: a persistence call that fails ends the batches of its stage: no
\* keyword batch is outstanding after the failure of an upsert of an earlier
\* batch, no bulk upsert is outstanding after the failure of an earlier one,
\* and what the store held before the failure it still holds.  (To
\* importPascalCsv an unavailable gateway is a persistence call that throws;
\* its catch clauses do not look at the error.)
C22_FailureHaltsStage ==
    /\ imp.pc = "keywords" => \A k \in imp.failedRows : k > imp.i
    /\ imp.request # <<>> => rankingFailures = {}
    /\ hist.runs > 0 =>
            nothingDeleted(hist.before[1].keywords, hist.before[1].rankings,
                           pascal_keywords, pascal_daily_rankings)

\* C22, the part that holds: whatever fails, what was committed stays, and a
\* failed bulk upsert is the last one of its key.
C22_CommittedStays ==
    /\ imp.request # <<>> =>
            \A n \in rankingFailures :
                imp.result.errors[n].pascal_id # rankingKeys(parsed[1])[imp.key]
    /\ hist.runs > 0 =>
            nothingDeleted(hist.before[1].keywords, hist.before[1].rankings,
                           pascal_keywords, pascal_daily_rankings)

\* C25: at every point of an import both imported counts are at most their
\* totals, and an import that returns success = true has upserted every
\* keyword of the file and has had every ranking of the file in a bulk
\* upsert that succeeded: the counts equal the totals, no call failed, and
\* every ranking of the file is in the store under the id of its keyword.
C25_SuccessIsComplete ==
    /\ imp.result.importedKeywords <= imp.result.totalKeywords
    /\ imp.result.importedRankings <= imp.result.totalRankings
    /\ (imp.pc = "done" /\ imp.result.success) =>
        /\ imp.result.importedKeywords = imp.result.totalKeywords
        /\ imp.result.importedRankings = imp.result.totalRankings
        /\ imp.result.totalKeywords = Len(parsed[1].keywords)
        /\ imp.result.totalRankings = Len(parsed[1].rankings)
        /\ imp.okRows = 1..Len(parsed[1].keywords)
        /\ imp.failedCalls = 0
        /\ \A n \in 1..Len(parsed[1].rankings) :
            \E r \in pascal_daily_rankings :
                /\ r.date = parsed[1].rankings[n].date
                /\ r.pascal_keyword_id = imp.keywordIdMap[parsed[1].rankings[n].pascal_id]

\* an import of three keywords and five rankings has returned success
C25_Witness ==
    /\ imp.pc = "done"
    /\ imp.result.success
    /\ imp.result.importedKeywords = 3
    /\ imp.result.importedRankings > 3

\* the rankings of the list have distinct pairs of pascal_id and date
onePerPair(rankings) ==
    \A m \in 1..Len(rankings) : \A n \in 1..Len(rankings) :
        (rankings[m].pascal_id = rankings[n].pascal_id
            /\ rankings[m].date = rankings[n].date) => m = n

\* C26: parsePascalCsv returns at most one ranking per pair of pascal_id and
\* date, and no bulk upsert importPascalCsv builds holds two records with
\* the same pascal_keyword_id and date.
C26_OneRankingPerPair ==
    /\ (parsed # <<>> /\ parsed[1].threw = <<>>) => onePerPair(parsed[1].rankings)
    /\ imp.request # <<>> => conflictFree(imp.request[1])

\* C26, the part that holds: when no two date cells of the header give the
\* same date and no two rows of the file give the same pascal_id, the
\* rankings parsePascalCsv returns have distinct pairs and so has every bulk
\* upsert.
C26_OnePerPairOfDistinctInput ==
    (parsed # <<>> /\ parsed[1].threw = <<>>
        /\ distinctKeys(parsed[1].keywords)
        /\ \A m \in 1..Len(dateColumns(headersOf(csvContent))) :
            \A n \in 1..Len(dateColumns(headersOf(csvContent))) :
                dateColumns(headersOf(csvContent))[m].date
                    = dateColumns(headersOf(csvContent))[n].date => m = n)
    => /\ onePerPair(parsed[1].rankings)
       /\ imp.request # <<>> => conflictFree(imp.request[1])

----------------------------------------------------------------------------
(* Imports with a progress sink                                             *)

\* the most calls of the sink before the one it fails
MaxSinkCalls == 10

\* the progressCallback of a call: none, one that returns, one that throws
\* at its n-th call
Sinks == {<<"absent", 0>>, <<"present", 0>>}
            \cup {<<"failing", n>> : n \in 1..MaxSinkCalls}

\* importPascalCsv(content, progressCallback) is called, once
StartImportWithSink(content, sink, n) ==
    /\ imp.pc = "idle"
    /\ hist.runs = 0
    /\ csvContent' = content
    /\ validation' = <<validatePascalCsv(content)>>
    /\ parsed' = IF validatePascalCsv(content).isValid
                 THEN <<parsePascalCsv(content)>> ELSE <<>>
    /\ imp' = startImportWith(content, sink, n)
    /\ ref' = startImport(content)
    /\ hist' = [recorded(content, imp', pascal_keywords, pascal_daily_rankings)
                    EXCEPT !.runs = hist.runs + 1,
                           !.before = <<[keywords |-> pascal_keywords,
                                          rankings |-> pascal_daily_rankings]>>]
    /\ UNCHANGED <<chartVars, storeVars, twoVars, auth, dash>>

NextSink ==
    \/ \E content \in ImportFiles, sk \in Sinks : StartImportWithSink(content, sk[1], sk[2])
    \/ \E k \in 1..MaxRows + 1 : KeywordUpsertSucceeds(k)
    \/ \E k \in 1..MaxRows + 1 : KeywordUpsertFails(k)
    \/ BulkUpsertSucceeds
    \/ BulkUpsertFails

SpecSink == Init /\ [][NextSink]_vars

\* importPascalCsv stands where the call without a sink stands, for the same
\* file and the same outcomes of the persistence calls so far: the same
\* calls issued and outstanding, the same result
asWithoutSink ==
    /\ imp.pc = ref.pc
    /\ imp.calls = ref.calls
    /\ imp.outstanding = ref.outstanding
    /\ imp.request = ref.request
    /\ imp.result = ref.result

\* C24: whatever the sink, absent, present or failing, importPascalCsv
\* issues the calls and returns the result of the call without a sink.
C24_SinkIsAdvisory == asWithoutSink

\* C24, the part that holds: a sink that returns changes nothing.
C24_ReturningSinkIsAdvisory == imp.sink # "failing" => asWithoutSink

\* a sink that returned every time was told of every stage of an import
\* with a failed call
C24_Witness ==
    /\ imp.sink = "present"
    /\ imp.pc = "done"
    /\ Len(imp.progress) >= 8
    /\ imp.failedCalls > 0

\* importPascalCsv returned from its last statement: by no early return
\* and not from the outer catch
returnedFromFinalize ==
    /\ imp.pc = "done"
    /\ \A n \in 1..Len(imp.result.errors) :
          imp.result.errors[n].kind \notin {"validation", "empty", "failed"}

\* C29: the stage positions of the progressCallback calls of one import
\* never decrease and lie between 1 and 10, the total reported, and an
\* import that reaches the end reports 10 last, whatever calls failed.
C29_ProgressAdvances ==
    /\ \A n \in 1..Len(imp.progress) : imp.progress[n] \in 1..10
    /\ \A n \in 1..Len(imp.progress) - 1 : imp.progress[n] <= imp.progress[n + 1]
    /\ returnedFromFinalize =>
          /\ Len(imp.progress) > 0
          /\ imp.progress[Len(imp.progress)] = 10

\* C29 witness: an import with a sink, two keyword batches, a keyword
\* upsert that failed and a bulk upsert that failed has reached the end
C29_Witness ==
    /\ imp.sink = "present"
    /\ returnedFromFinalize
    /\ imp.failedRows # {}
    /\ imp.failedCalls > Cardinality(imp.failedRows)
    /\ \E n \in 1..Len(imp.progress) : imp.progress[n] = 5

----------------------------------------------------------------------------
(* Two imports at the same time                                             *)

\* two files with the same natural key 7 and different columns and ranks
FileSeven      == <<HeaderThreeDays, Row7>>
FileSevenAgain == <<HeaderThreeDays, Row7again>>

SharedKeyFiles == {FileSeven, FileSevenAgain, FileSameIdTwice}

\* a second client calls importPascalCsv(content)
StartOther(content) ==
    /\ imp2.pc = "idle"
    /\ imp2' = startImport(content)
    /\ parsed2' = IF validatePascalCsv(content).isValid
                  THEN <<parsePascalCsv(content)>> ELSE <<>>
    /\ UNCHANGED <<parserVars, chartVars, storeVars, imp, hist, ref, committed, auth, dash>>

\* the upsert of keyword number k of the second client's batch succeeds
OtherKeywordUpsertSucceeds(k) ==
    /\ imp2.pc = "keywords"
    /\ k \in imp2.outstanding
    /\ pascal_keywords' = upsertKeyword(pascal_keywords, parsed2[1].keywords[k], nextUuid)
    /\ nextUuid' = IF upsertedId(pascal_keywords, parsed2[1].keywords[k], nextUuid) = nextUuid
                   THEN nextUuid + 1 ELSE nextUuid
    /\ imp2' = keywordSucceeded(imp2, parsed2[1], k,
                                upsertedId(pascal_keywords, parsed2[1].keywords[k], nextUuid))
    /\ committed' = keywordCommitted(committed, parsed2[1].keywords[k])
    /\ UNCHANGED <<parserVars, chartVars, pascal_daily_rankings, imp, hist, ref, parsed2, auth, dash>>

\* the upsert of keyword number k of the second client's batch fails
OtherKeywordUpsertFails(k) ==
    /\ imp2.pc = "keywords"
    /\ k \in imp2.outstanding
    /\ imp2' = keywordFailed(imp2, parsed2[1], k)
    /\ UNCHANGED <<parserVars, chartVars, storeVars, imp, hist, ref, parsed2, committed, auth, dash>>

\* the second client's outstanding bulk upsert succeeds
OtherBulkUpsertSucceeds ==
    /\ imp2.pc = "rankings"
    /\ imp2.request # <<>>
    /\ conflictFree(imp2.request[1])
    /\ pascal_daily_rankings' = bulkUpsertRankings(pascal_daily_rankings, imp2.request[1])
    /\ imp2' = bulkSucceeded(imp2, parsed2[1])
    /\ committed' = rankingsCommitted(committed, imp2.request[1])
    /\ UNCHANGED <<parserVars, chartVars, pascal_keywords, nextUuid, imp, hist, ref, parsed2, auth, dash>>

\* the second client's outstanding bulk upsert fails
OtherBulkUpsertFails ==
    /\ imp2.pc = "rankings"
    /\ imp2.request # <<>>
    /\ imp2' = bulkFailed(imp2, parsed2[1])
    /\ UNCHANGED <<parserVars, chartVars, storeVars, imp, hist, ref, parsed2, committed, auth, dash>>

\* the first client imports once
StartFirst(content) == hist.runs = 0 /\ StartImport(content)

NextTwoImports ==
    \/ \E content \in SharedKeyFiles : StartFirst(content)
    \/ \E k \in 1..MaxRows : KeywordUpsertSucceeds(k)
    \/ \E k \in 1..MaxRows : KeywordUpsertFails(k)
    \/ BulkUpsertSucceeds
    \/ BulkUpsertFails
    \/ \E content \in SharedKeyFiles : StartOther(content)
    \/ \E k \in 1..MaxRows : OtherKeywordUpsertSucceeds(k)
    \/ \E k \in 1..MaxRows : OtherKeywordUpsertFails(k)
    \/ OtherBulkUpsertSucceeds
    \/ OtherBulkUpsertFails

SpecTwoImports == Init /\ [][NextTwoImports]_vars

----------------------------------------------------------------------------
(* services/auth.ts                                                         *)

\* String.prototype.endsWith
endsWith(s, suffix) ==
    /\ Len(suffix) <= Len(s)
    /\ SubSeq(s, Len(s) - Len(suffix) + 1, Len(s)) = suffix

\* '@goodfellows.co.jp'
AllowedDomain == <<"@","g","o","o","d","f","e","l","l","o","w","s",".","c","o",".","j","p">>

isAllowedDomain(email) == endsWith(email, AllowedDomain)

\* email.split('@')[0]
RECURSIVE beforeAt(_)
beforeAt(email) ==
    IF email = <<>> \/ Head(email) = "@" THEN <<>>
    ELSE <<Head(email)>> \o beforeAt(Tail(email))

\* a Supabase user: email is <<>> or <<text>>, and of user_metadata the
\* full_name, <<>> or <<text>>
AuthUser(email, full_name) == [email |-> email, full_name |-> full_name]

convertToUserProfile(user) ==
    [email |-> user.email[1],
     name  |-> IF user.full_name # <<>> /\ user.full_name[1] # <<>>
               THEN user.full_name[1]
               ELSE beforeAt(user.email[1])]

\* getCurrentUser up to its first return or to its await of signOut, on the
\* response {data: {user}, error} of supabase.auth.getUser()
getCurrentUser(response) ==
    IF response.error THEN "null"
    ELSE IF response.user = <<>> \/ response.user[1].email = <<>>
              \/ response.user[1].email[1] = <<>>
         THEN "null"
    ELSE IF ~isAllowedDomain(response.user[1].email[1]) THEN "signOut"
    ELSE "profile"

\* the listener onAuthStateChange registers, up to its first callback or to
\* its await of signOut; session is <<>> or <<session.user>>
onAuthStateChange(event, session) ==
    IF event = "SIGNED_OUT" THEN "null"
    ELSE IF session = <<>> THEN "null"
    ELSE IF session[1].email = <<>> \/ session[1].email[1] = <<>>
              \/ ~isAllowedDomain(session[1].email[1])
         THEN "signOut"
    ELSE "profile"

\* what is delivered once signOut has settled: it throws, or the line after
\* it throws, and the catch delivers null
afterSignOut(call, outcome) ==
    [by |-> call.by, user |-> call.user, value |-> <<>>, signOut |-> outcome]

\* what is delivered without a sign-out
delivery(by, user, step) ==
    [by |-> by, user |-> user,
     value |-> IF step = "profile" THEN <<convertToUserProfile(user[1])>> ELSE <<>>,
     signOut |-> "none"]

beganAuthCall(a, by, user, step) ==
    IF step = "signOut"
    THEN [a EXCEPT !.calls = a.calls + 1,
                   !.pending = a.pending \cup {[by |-> by, user |-> user]}]
    ELSE [a EXCEPT !.calls = a.calls + 1,
                   !.delivered = a.delivered \cup {delivery(by, user, step)}]

\* the most calls of the service in one run
MaxAuthCalls == 2

e_member   == <<"a">> \o AllowedDomain
e_bare     == AllowedDomain
e_other    == <<"a","@","x",".","j","p">>
e_longer   == <<"a">> \o AllowedDomain \o <<".","x">>
e_sub      == <<"a","@","s",".","g","o","o","d","f","e","l","l","o","w","s",".","c","o",".","j","p">>
e_upper    == <<"a","@","G","O","O","D","F","E","L","L","O","W","S",".","C","O",".","J","P">>

Emails == {e_member, e_bare, e_other, e_longer, e_sub, e_upper, <<>>}

Users == {AuthUser(<<e>>, <<>>) : e \in Emails}
            \cup {AuthUser(<<>>, <<>>),
                  AuthUser(<<e_member>>, << <<"B","o","b">> >>),
                  AuthUser(<<e_other>>, << <<"B","o","b">> >>)}

\* what supabase.auth.getUser() answers: an error without a user, no user,
\* or a user
GetUserResponses ==
    {[error |-> TRUE, user |-> <<>>], [error |-> FALSE, user |-> <<>>]}
        \cup {[error |-> FALSE, user |-> <<u>>] : u \in Users}

\* the events the client emits: SIGNED_OUT comes with no session
AuthEvents ==
    {<<"SIGNED_OUT", <<>> >>}
        \cup {<<e, <<>> >> : e \in {"SIGNED_IN", "TOKEN_REFRESHED"}}
        \cup {<<e, <<u>> >> : e \in {"SIGNED_IN", "TOKEN_REFRESHED"}, u \in Users}

InitAuth ==
    /\ NoParser
    /\ NoChart
    /\ NoStore
    /\ NoSecondImport
    /\ NoAuth
    /\ NoSink
    /\ NoDashboard

\* authService.getCurrentUser() is called and getUser() answers
GetCurrentUser(response) ==
    /\ auth.calls < MaxAuthCalls
    /\ auth' = beganAuthCall(auth, "getCurrentUser", response.user,
                             getCurrentUser(response))
    /\ UNCHANGED <<parserVars, chartVars, storeVars, imp, hist, ref, twoVars, dash>>

\* the client emits an event to the registered listener
AuthStateChange(event, session) ==
    /\ auth.calls < MaxAuthCalls
    /\ auth' = beganAuthCall(auth, "onAuthStateChange", session,
                             onAuthStateChange(event, session))
    /\ UNCHANGED <<parserVars, chartVars, storeVars, imp, hist, ref, twoVars, dash>>

\* supabase.auth.signOut() answers without an error
SignOutSucceeds(call) ==
    /\ call \in auth.pending
    /\ auth' = [auth EXCEPT !.pending = auth.pending \ {call},
                            !.delivered = auth.delivered \cup {afterSignOut(call, "ok")}]
    /\ UNCHANGED <<parserVars, chartVars, storeVars, imp, hist, ref, twoVars, dash>>

\* supabase.auth.signOut() answers with an error and signOut throws
SignOutFails(call) ==
    /\ call \in auth.pending
    /\ auth' = [auth EXCEPT !.pending = auth.pending \ {call},
                            !.delivered = auth.delivered \cup {afterSignOut(call, "failed")}]
    /\ UNCHANGED <<parserVars, chartVars, storeVars, imp, hist, ref, twoVars, dash>>

NextAuth ==
    \/ \E response \in GetUserResponses : GetCurrentUser(response)
    \/ \E ev \in AuthEvents : AuthStateChange(ev[1], ev[2])
    \/ \E call \in auth.pending : SignOutSucceeds(call)
    \/ \E call \in auth.pending : SignOutFails(call)

SpecAuth == InitAuth /\ [][NextAuth]_vars

\* the email is some text followed by @goodfellows.co.jp
hasAllowedEnding(email) ==
    \E n \in 0..Len(email) : SubSeq(email, 1, n) \o AllowedDomain = email

\* a user with an email, possibly the empty text, that does not end with
\* @goodfellows.co.jp
outsider(user) ==
    user # <<>> /\ user[1].email # <<>> /\ ~hasAllowedEnding(user[1].email[1])

\* every profile delivered is the profile of the user of the call and its
\* email ends with @goodfellows.co.jp
onlyMembersDelivered ==
    \A d \in auth.delivered :
        d.value # <<>> =>
            /\ d.user # <<>> /\ d.user[1].email # <<>>
            /\ d.value[1].email = d.user[1].email[1]
            /\ hasAllowedEnding(d.value[1].email)

\* C17: every profile getCurrentUser returns or the listener hands to the
\* callback has an email that ends with @goodfellows.co.jp; for a user whose
\* email does not, the value is null and was delivered after a sign-out was
\* issued, whether the sign-out succeeded or failed.
C17_DomainRestriction ==
    /\ onlyMembersDelivered
    /\ \A d \in auth.delivered :
            outsider(d.user) => d.value = <<>> /\ d.signOut \in {"ok", "failed"}

\* C17, the part that holds: no profile is delivered but a member's, and a
\* user whose email is not empty and does not end with @goodfellows.co.jp
\* gets null after a sign-out was issued, whether it succeeded or failed; a
\* sign-out is awaited for no member.
C17_RestrictionWithEmail ==
    /\ onlyMembersDelivered
    /\ \A d \in auth.delivered :
            (outsider(d.user) /\ d.user[1].email[1] # <<>>)
                => d.value = <<>> /\ d.signOut \in {"ok", "failed"}
    /\ \A call \in auth.pending :
            call.user # <<>>
            /\ (call.user[1].email = <<>> \/ ~hasAllowedEnding(call.user[1].email[1]))

\* getCurrentUser and the listener have both met an outsider, the sign-out
\* of one failed and the sign-out of the other succeeded
C17_Witness ==
    /\ \E d \in auth.delivered :
            d.by = "getCurrentUser" /\ outsider(d.user) /\ d.signOut = "failed"
    /\ \E d \in auth.delivered :
            d.by = "onAuthStateChange" /\ outsider(d.user) /\ d.signOut = "ok"

----------------------------------------------------------------------------
(* The Dashboard: the selection of a keyword and a date range, and the     *)
(* ranking queries its fetchData effect issues.  The route carries no      *)
(* pascalId; the keyword details and the import modal are left out.        *)

\* the most getPascalRankingData calls of one run
MaxQueries == 3

\* the rows of pascal_daily_rankings the dashboard reads; rank <<>> is NULL
DashboardRankings ==
    {[pascal_keyword_id |-> 1, date |-> Day(2025, 1, 1), rank |-> <<5>>],
     [pascal_keyword_id |-> 1, date |-> Day(2025, 1, 2), rank |-> <<>>],
     [pascal_keyword_id |-> 1, date |-> Day(2025, 1, 3), rank |-> <<6>>],
     [pascal_keyword_id |-> 2, date |-> Day(2025, 1, 1), rank |-> <<12>>],
     [pascal_keyword_id |-> 2, date |-> Day(2025, 1, 3), rank |-> <<3>>]}

\* what getPascalKeywordsForDisplay returns
DashboardKeywords == <<[id |-> 1, pascal_id |-> 7], [id |-> 2, pascal_id |-> 8]>>

\* new Date().toISOString().split('T')[0]
DashboardToday == Day(2025, 1, 4)

\* the date ranges of handleDateChange
DateRanges == {<<Day(2025, 1, 1), Day(2025, 1, 2)>>, <<Day(2025, 1, 2), Day(2025, 1, 3)>>}

\* .eq('pascal_keyword_id', keywordId), .gte('date', startDate) if startDate,
\* .lte('date', endDate) if endDate
rankingRowsOf(keywordId, start, end) ==
    {r \in DashboardRankings :
        /\ r.pascal_keyword_id = keywordId
        /\ start # <<>> => DateParse(start[1]) <= DateParse(r.date)
        /\ end # <<>> => DateParse(r.date) <= DateParse(end[1])}

\* pascalRankingService.getRankingsByKeyword: the rows, .order('date')
getRankingsByKeyword(keywordId, start, end) == SeqOfSet(rankingRowsOf(keywordId, start, end))

\* r.rank !== null && r.rank !== undefined
rankIsNotNull(r) == r.rank # <<>>

\* .map(r => ({ date: r.date, rank: r.rank! }))
dateAndRank(rankings) ==
    [n \in 1..Len(rankings) |-> [date |-> rankings[n].date, rank |-> rankings[n].rank[1]]]

\* getPascalRankingData(keywordId, startDate, endDate)
getPascalRankingData(keywordId, start, end) ==
    dateAndRank(SelectSeq(getRankingsByKeyword(keywordId, start, end), rankIsNotNull))

\* the call getPascalRankingData(selectedKeywordId, startDate, endDate) of d
rankingQuery(d) ==
    [n |-> d.issued + 1, keywordId |-> d.selectedKeywordId[1],
     startDate |-> d.startDate, endDate |-> d.endDate]

\* fetchData up to its await
fetchData(d) ==
    IF d.selectedKeywordId = <<>> \/ d.startDate = <<>> \/ d.endDate = <<>> THEN d
    ELSE [d EXCEPT !.isLoadingData = TRUE, !.issued = d.issued + 1,
                   !.pending = d.pending \cup {rankingQuery(d)}]

\* the render that follows the state changes of a handler: the effect of
\* [selectedKeywordId, startDate, endDate] runs when one of them changed
rerendered(old, d) ==
    IF <<d.selectedKeywordId, d.startDate, d.endDate>>
            # <<old.selectedKeywordId, old.startDate, old.endDate>>
    THEN fetchData(d) ELSE d

\* the effect "Auto-select first keyword when needed", without a pascalId
autoSelect(d) ==
    IF Len(d.keywords) > 0 /\ d.selectedKeywordId = <<>>
    THEN [d EXCEPT !.selectedKeywordId = <<d.keywords[1].id>>] ELSE d

\* the response data of query q has arrived: setRankingData(data), finally
querySucceeded(d, q) ==
    [d EXCEPT !.rankingData = getPascalRankingData(q.keywordId, q.startDate, q.endDate),
              !.isLoadingData = FALSE, !.pending = d.pending \ {q},
              !.answered = d.answered \cup {q.n},
              !.settledOrder = Append(d.settledOrder, q.n)]

\* query q has thrown: console.error, finally
queryFailed(d, q) ==
    [d EXCEPT !.isLoadingData = FALSE, !.pending = d.pending \ {q},
              !.settledOrder = Append(d.settledOrder, q.n)]

\* the component after its first render: initializeDates and fetchKeywords
\* are awaited, fetchData has returned at its first test
mounted == [IdleDashboard EXCEPT !.awaitingKeywords = TRUE, !.awaitingPeriod = 1]

InitDashboard ==
    /\ NoParser
    /\ NoChart
    /\ NoStore
    /\ NoSecondImport
    /\ NoAuth
    /\ NoSink
    /\ dash = mounted

\* a step of the dashboard leaves everything else alone
DashboardOnly == UNCHANGED <<parserVars, chartVars, storeVars, imp, hist, ref, twoVars, auth>>

\* fetchKeywords: getPascalKeywordsForDisplay returns; the auto-select effect
FetchKeywordsSucceeds ==
    /\ dash.awaitingKeywords
    /\ dash.issued < MaxQueries
    /\ dash' = rerendered(dash, autoSelect([dash EXCEPT !.keywords = DashboardKeywords,
                                                        !.awaitingKeywords = FALSE]))
    /\ DashboardOnly

\* fetchKeywords: getPascalKeywordsForDisplay throws
FetchKeywordsFails ==
    /\ dash.awaitingKeywords
    /\ dash' = [dash EXCEPT !.awaitingKeywords = FALSE]
    /\ DashboardOnly

\* calculateAllTimePeriod returns to initializeDates or handlePeriodChange:
\* latest is what getLatestRankingDate returned
AllTimePeriodArrives(latest) ==
    /\ dash.awaitingPeriod > 0
    /\ dash.issued < MaxQueries
    /\ dash' = rerendered(dash,
                  [dash EXCEPT !.awaitingPeriod = dash.awaitingPeriod - 1,
                               !.startDate = <<Day(2024, 5, 1)>>,
                               !.endDate = IF latest = <<>> THEN <<DashboardToday>>
                                           ELSE latest])
    /\ DashboardOnly

\* handlePeriodChange(periodType) for 'all_time' and 'custom'
PeriodChange(periodType) ==
    /\ dash.awaitingPeriod = 0
    /\ dash.selectedPeriod # periodType
    /\ dash' = [dash EXCEPT !.selectedPeriod = periodType,
                            !.awaitingPeriod = IF periodType = "all_time" THEN 1 ELSE 0]
    /\ DashboardOnly

\* handleDateChange(newStartDate, newEndDate)
DateChange(newStartDate, newEndDate) ==
    /\ dash.issued < MaxQueries
    /\ dash' = rerendered(dash, [dash EXCEPT !.startDate = <<newStartDate>>,
                                             !.endDate = <<newEndDate>>,
                                             !.selectedPeriod = "custom"])
    /\ DashboardOnly

\* handleSelectKeyword(keywordId)
SelectKeyword(keywordId) ==
    /\ dash.issued < MaxQueries
    /\ \E n \in 1..Len(dash.keywords) : dash.keywords[n].id = keywordId
    /\ dash.selectedKeywordId # <<keywordId>>
    /\ dash' = rerendered(dash, [dash EXCEPT !.selectedKeywordId = <<keywordId>>])
    /\ DashboardOnly

\* an awaited getPascalRankingData call returns its data
RankingQuerySucceeds(q) ==
    /\ q \in dash.pending
    /\ dash' = querySucceeded(dash, q)
    /\ DashboardOnly

\* an awaited getPascalRankingData call throws
RankingQueryFails(q) ==
    /\ q \in dash.pending
    /\ dash' = queryFailed(dash, q)
    /\ DashboardOnly

NextDashboard ==
    \/ FetchKeywordsSucceeds
    \/ FetchKeywordsFails
    \/ \E latest \in {<<>>, <<Day(2025, 1, 3)>>} : AllTimePeriodArrives(latest)
    \/ \E periodType \in {"all_time", "custom"} : PeriodChange(periodType)
    \/ \E range \in DateRanges : DateChange(range[1], range[2])
    \/ \E keywordId \in {1, 2} : SelectKeyword(keywordId)
    \/ \E q \in dash.pending : RankingQuerySucceeds(q)
    \/ \E q \in dash.pending : RankingQueryFails(q)

SpecDashboard == InitDashboard /\ [][NextDashboard]_vars

\* the response to the selection on display
responseToSelection ==
    getPascalRankingData(dash.selectedKeywordId[1], dash.startDate, dash.endDate)

\* no query is awaited and the query of the latest selection returned data
latestAnswered == dash.pending = {} /\ dash.issued > 0 /\ dash.issued \in dash.answered

\* the queries settled in the order of their issue
settledInOrder ==
    \A n \in 1..Len(dash.settledOrder) - 1 : dash.settledOrder[n] < dash.settledOrder[n + 1]

\* C30: once every ranking query has settled, the rankingData on display is
\* the response to the latest (keyword, startDate, endDate) selection: the
\* response to an earlier selection never replaces that of a later one.
C30_LatestSelectionDisplayed ==
    latestAnswered => dash.rankingData = responseToSelection

\* C30, the part that holds: when the queries settle in the order of their
\* issue, the data on display is the response to the latest selection.
C30_InOrderResponsesDisplayed ==
    (latestAnswered /\ settledInOrder) => dash.rankingData = responseToSelection
====
